---- MODULE Spec2Model ----
(***************************************************************************)
(* A model of fintool: the csv record store (fintool/db.py), the          *)
(* transaction manager (fintool/transac.py), the tag manager               *)
(* (fintool/tagging.py) and the sync manager (fintool/sync.py).            *)
(*                                                                         *)
(* Python values are modelled as strings.  None is the string NoneVal, a   *)
(* float is "float:" followed by its repr, a set of labels is a TLA+ set.  *)
(* A dict is a sequence of <<key, value>> pairs in insertion order.  A csv *)
(* file is a header (sequence of field names) and a sequence of rows, each *)
(* row a sequence of cells.  str.split is the inverse of str.join over the *)
(* strings of the model.                                                   *)
(***************************************************************************)
EXTENDS Integers, Sequences, FiniteSets, TLC

VARIABLES
    disk,                    \* collection name -> csv file under ~/.fintool
    _transaction_email_ids,  \* TransactionManager._transaction_email_ids
    last,                    \* the call that has just ended: arguments and outcome
    saves,                   \* <<collection, email_id>> -> save_transaction calls ended
    now,                     \* the clock read by time.time(), in seconds
    rewrite,                 \* the rewrite of a collection in progress in CsvDb
    tag_manager,             \* the TagManager in use: _tags is <<>> for None and []
    email_parser,            \* the parser built by build_parser and its fields
    procs,                   \* process -> its position in a CsvDb operation
    gmail,                   \* the emails held by the email service provider
    sync                     \* the sync_transactions call in progress

vars == <<disk, _transaction_email_ids, last, saves, now, rewrite, tag_manager, email_parser, procs, gmail, sync>>

(***************************************************************************)
(* Bounds.                                                                 *)
(***************************************************************************)
MaxRows == 2     \* rows held by the transaction partitions altogether
MaxUuid == 2     \* ids of uuid4 in the store at one time
MaxDbRows == 2   \* records held by the collections of the record store altogether

(***************************************************************************)
(* Python values.                                                          *)
(***************************************************************************)
NoneVal == "<None>"

Range(s) == {s[i] : i \in 1..Len(s)}

RECURSIVE Join(_, _)
\* sep.join(parts)
Join(parts, sep) ==
    IF Len(parts) = 0 THEN ""
    ELSE IF Len(parts) = 1 THEN parts[1]
    ELSE parts[1] \o sep \o Join(Tail(parts), sep)

\* iteration order of a set of strings: one order per set
SetOrder(S) == CHOOSE s \in [1..Cardinality(S) -> S] : Range(s) = S

\* dict helpers
Keys(d) == [i \in 1..Len(d) |-> d[i][1]]
Has(d, k) == \E i \in 1..Len(d) : d[i][1] = k
Get(d, k) == d[CHOOSE i \in 1..Len(d) : d[i][1] = k][2]
GetOr(d, k, dflt) == IF Has(d, k) THEN Get(d, k) ELSE dflt

(***************************************************************************)
(* The strings of the model.                                               *)
(***************************************************************************)
Labels == {"a", "b"}
\* str(S) for a set S of labels
SetRepr(S) ==
    LET seq == SetOrder(S)
    IN  "{" \o Join([i \in 1..Len(seq) |-> "'" \o seq[i] \o "'"], ", ") \o "}"
SetReprs == {SetRepr(S) : S \in (SUBSET Labels) \ {{}}}
\* the strings between the '|' of a tags column
TagParts == Labels \cup {""} \cup SetReprs
LabelSeqs == UNION {[1..n -> TagParts] : n \in 1..2}
\* the strings that the tags column can hold, and str.split('|') on them
TagStrs == {Join(p, "|") : p \in LabelSeqs}
SplitPipeTable == [s \in TagStrs |-> CHOOSE p \in LabelSeqs : Join(p, "|") = s]
SplitPipe(s) == SplitPipeTable[s]
SetOrderTable == [S \in {{}} \cup {Range(p) : p \in LabelSeqs} |-> SetOrder(S)]
SetToSeq(S) == SetOrderTable[S]

\* the years of the dates of the model, and the years that the loop of
\* calculate_collections_from_date_range can reach from them
YearStrs == {ToString(y) : y \in 2020..2028}
MonthInts == 1..12
Pad2(n) == (IF n < 10 THEN "0" ELSE "") \o ToString(n)
MonthStrs == {Pad2(m) : m \in MonthInts}
\* the months that '%m' of strptime also matches: one digit, no padding
UnpaddedMonthStrs == {ToString(m) : m \in 1..9}
DayStrs == {"01", "02"}
DatePartSeqs ==
    (YearStrs \X (MonthStrs \cup UnpaddedMonthStrs))
    \cup (YearStrs \X (MonthStrs \cup UnpaddedMonthStrs) \X DayStrs)
DashStrs == {Join(p, "-") : p \in DatePartSeqs}
\* str.split('-') on a date string
SplitDashTable == [s \in DashStrs |-> CHOOSE p \in DatePartSeqs : Join(p, "-") = s]
SplitDash(s) == SplitDashTable[s]
\* int() on the digit strings of the model
ToIntTable ==
    [s \in YearStrs \cup MonthStrs \cup UnpaddedMonthStrs |->
        CHOOSE n \in MonthInts \cup 2000..2100 : ToString(n) = s \/ Pad2(n) = s]
ToInt(s) == ToIntTable[s]

\* literals accepted by float(), with repr(float(literal))
FloatLits == {<<"12.3", "12.3">>, <<"1", "1.0">>, <<"1.0", "1.0">>}
IsFloatLit(s) == \E p \in FloatLits : p[1] = s
Float(s) == "float:" \o (CHOOSE p \in FloatLits : p[1] = s)[2]
FloatVals == {"float:" \o p[2] : p \in FloatLits}
\* str(v) for a float v
FloatStr(v) == (CHOOSE p \in FloatLits : "float:" \o p[2] = v)[2]

\* F applied to v: v is computed once and named by F's parameter
With(v, F(_)) == F(v)

\* the cell csv.writer writes for a value: '' for None, str(v) otherwise
CsvCell(v) ==
    IF v = NoneVal THEN ""
    ELSE IF v \in FloatVals THEN FloatStr(v)
    ELSE v

(***************************************************************************)
(* fintool/db.py : CsvDb                                                   *)
(***************************************************************************)
Missing == [exists |-> FALSE, hdr |-> <<>>, rows |-> <<>>]

\* the file of a collection; a name without a file is a missing collection
File(d, collection) == IF collection \in DOMAIN d THEN d[collection] ELSE Missing

MissingCollectionError == "MissingCollectionError"

\* csv.DictReader: a row as a dict keyed by the header
RowDict(hdr, row) == [i \in 1..Len(hdr) |-> <<hdr[i], IF i <= Len(row) THEN row[i] ELSE NoneVal>>]

\* csv.DictWriter(fieldnames).writerow(record)
WriteRow(fieldnames, record) ==
    [i \in 1..Len(fieldnames) |-> CsvCell(GetOr(record, fieldnames[i], ""))]

add_record(d, record, collection) ==
    LET f == File(d, collection)
        row == WriteRow(Keys(record), record)
    IN  IF f.exists
        THEN [d EXCEPT ![collection].rows = Append(@, row)]
        ELSE [d EXCEPT ![collection] =
                 [exists |-> TRUE, hdr |-> Keys(record), rows |-> <<row>>]]

get_records(d, collection) ==
    LET f == File(d, collection)
    IN  IF f.exists
        THEN [exc |-> "", ret |-> [i \in 1..Len(f.rows) |-> RowDict(f.hdr, f.rows[i])]]
        ELSE [exc |-> MissingCollectionError, ret |-> <<>>]

RECURSIVE FilterRows(_, _, _, _)
\* the rows written to the temporary file by remove_record
FilterRows(hdr, rows, id_field, id_value) ==
    IF rows = <<>> THEN <<>>
    ELSE LET rest == FilterRows(hdr, Tail(rows), id_field, id_value)
         IN  IF Get(RowDict(hdr, Head(rows)), id_field) # id_value
             THEN <<WriteRow(hdr, RowDict(hdr, Head(rows)))>> \o rest
             ELSE rest

\* the file of the collection deleted when no row is left
remove_record_unlink_empty(d, id_field, id_value, collection) ==
    LET f == File(d, collection)
        kept == FilterRows(f.hdr, f.rows, id_field, id_value)
    IN  IF f.exists
        THEN [exc |-> "",
              d |-> [d EXCEPT ![collection] =
                        IF kept = <<>> THEN Missing ELSE [f EXCEPT !.rows = kept]]]
        ELSE [exc |-> MissingCollectionError, d |-> d]

remove_record(d, id_field, id_value, collection) ==
    LET f == File(d, collection)
    IN  IF f.exists
        THEN [exc |-> "",
              d |-> [d EXCEPT ![collection].rows =
                        FilterRows(f.hdr, f.rows, id_field, id_value)]]
        ELSE [exc |-> MissingCollectionError, d |-> d]

RECURSIVE ReplaceRows(_, _, _, _, _)
\* the rows written to the temporary file by edit_record
ReplaceRows(hdr, rows, id_field, id_value, new_record) ==
    IF rows = <<>> THEN <<>>
    ELSE LET rest == ReplaceRows(hdr, Tail(rows), id_field, id_value, new_record)
         IN  IF Get(RowDict(hdr, Head(rows)), id_field) # id_value
             THEN <<WriteRow(hdr, RowDict(hdr, Head(rows)))>> \o rest
             ELSE <<WriteRow(hdr, new_record)>> \o rest

\* the matching rows removed and new_record appended at the end
edit_record_append(d, id_field, id_value, new_record, collection) ==
    LET f == File(d, collection)
        kept == FilterRows(f.hdr, f.rows, id_field, id_value)
    IN  IF f.exists
        THEN [exc |-> "",
              d |-> [d EXCEPT ![collection].rows =
                        IF Len(kept) = Len(f.rows) THEN kept
                        ELSE Append(kept, WriteRow(f.hdr, new_record))]]
        ELSE [exc |-> MissingCollectionError, d |-> d]

edit_record(d, id_field, id_value, new_record, collection) ==
    LET f == File(d, collection)
    IN  IF f.exists
        THEN [exc |-> "",
              d |-> [d EXCEPT ![collection].rows =
                        ReplaceRows(f.hdr, f.rows, id_field, id_value, new_record)]]
        ELSE [exc |-> MissingCollectionError, d |-> d]

(***************************************************************************)
(* fintool/transac.py : Transaction                                        *)
(***************************************************************************)
MissingFieldError == "MissingFieldError"
InvalidFieldValueError == "InvalidFieldValueError"
InvalidTransactionError == "InvalidTransactionError"
TypeError == "TypeError"
AttributeError == "AttributeError"

SUPPORTED_TYPES == {"income", "outcome"}

IsStr(v) == v # NoneVal /\ v \notin FloatVals

\* datetime.datetime.strptime(s, '%Y-%m-%d') succeeds
DateStrs == {Join(p, "-") : p \in {q \in DatePartSeqs : Len(q) = 3}}
IsDateStr(s) == s \in DateStrs

NoTransaction ==
    [id |-> "", type |-> "", date |-> "", amount |-> "", tags |-> {}, email_id |-> ""]

\* Transaction.__init__(**kwargs); fresh is the value of uuid.uuid4().hex
Transaction(kwargs, fresh) ==
    LET fail(e) == [exc |-> e, tx |-> NoTransaction]
    IN  IF ~Has(kwargs, "type") THEN fail(MissingFieldError)
        ELSE IF Get(kwargs, "type") \notin SUPPORTED_TYPES THEN fail(InvalidFieldValueError)
        ELSE IF ~Has(kwargs, "tags") THEN fail(MissingFieldError)
        ELSE IF ~IsStr(Get(kwargs, "tags")) THEN fail(InvalidFieldValueError)
        ELSE IF ~Has(kwargs, "date") THEN fail(MissingFieldError)
        ELSE IF ~IsStr(Get(kwargs, "date")) THEN fail(TypeError)
        ELSE IF ~IsDateStr(Get(kwargs, "date")) THEN fail(InvalidFieldValueError)
        ELSE IF ~Has(kwargs, "amount") THEN fail(MissingFieldError)
        ELSE IF Get(kwargs, "amount") = NoneVal THEN fail(TypeError)
        ELSE IF IsStr(Get(kwargs, "amount")) /\ ~IsFloatLit(Get(kwargs, "amount"))
             THEN fail(InvalidFieldValueError)
        ELSE [exc |-> "",
              tx |-> [id |-> IF Has(kwargs, "id") THEN Get(kwargs, "id") ELSE fresh,
                      type |-> Get(kwargs, "type"),
                      date |-> Get(kwargs, "date"),
                      amount |-> IF IsStr(Get(kwargs, "amount"))
                                 THEN Float(Get(kwargs, "amount"))
                                 ELSE Get(kwargs, "amount"),
                      tags |-> Range(SplitPipe(Get(kwargs, "tags"))),
                      email_id |-> GetOr(kwargs, "email_id", NoneVal)]]

\* Transaction.serialize
Transaction_serialize(tx) ==
    << <<"id", tx.id>>, <<"type", tx.type>>, <<"date", tx.date>>,
       <<"amount", tx.amount>>, <<"tags", Join(SetToSeq(tx.tags), "|")>>,
       <<"email_id", tx.email_id>> >>

\* the ids that uuid.uuid4().hex returns
Uuid(n) == "u" \o ToString(n + 1)

(***************************************************************************)
(* fintool/transac.py : TransactionManager                                 *)
(***************************************************************************)
calculate_collection_from_date(date_str) ==
    LET date_parts == SplitDash(date_str)
    IN  date_parts[1] \o "/" \o date_parts[2]

MaxLoop == 60    \* iterations of the loop of calculate_collections_from_date_range

\* year, month, year_limit, month_limit and collections before the while loop
RangeLoopInit(from_str, to_str) ==
    LET from_parts == SplitDash(from_str)
        to_parts == SplitDash(to_str)
    IN  [year |-> ToInt(from_parts[1]), month |-> ToInt(from_parts[2]),
         year_limit |-> ToInt(to_parts[1]), month_limit |-> ToInt(to_parts[2]),
         collections |-> <<>>]

\* the loop ending one month before month_limit
RangeLoopDone_exclusive(s) == s.month >= s.month_limit /\ s.year = s.year_limit

\* the condition of the while loop is false
RangeLoopDone(s) == s.month > s.month_limit /\ s.year = s.year_limit

\* one iteration of the while loop
RangeLoopStep(s) ==
    IF s.month = 13 THEN [s EXCEPT !.year = @ + 1, !.month = 1]
    ELSE LET date_str == ToString(s.year) \o "-"
                            \o (IF s.month < 10 THEN "0" ELSE "")
                            \o ToString(s.month)
         IN  [s EXCEPT !.collections =
                           Append(@, calculate_collection_from_date(date_str)),
                       !.month = @ + 1]

RECURSIVE RangeLoop(_, _)
\* the while loop run from state s, for fuel iterations at most
RangeLoop(s, fuel) ==
    IF fuel = 0 THEN [done |-> FALSE, collections |-> s.collections]
    ELSE IF RangeLoopDone(s) THEN [done |-> TRUE, collections |-> s.collections]
    ELSE RangeLoop(RangeLoopStep(s), fuel - 1)

calculate_collections_from_date_range(from_str, to_str) ==
    RangeLoop(RangeLoopInit(from_str, to_str), MaxLoop)

RECURSIVE create_transaction_list(_)
\* [Transaction(**d) for d in dicts]: the list, or the first exception
create_transaction_list(dicts) ==
    IF dicts = <<>> THEN [exc |-> "", ret |-> <<>>]
    ELSE LET t == Transaction(Head(dicts), "")
             rest == create_transaction_list(Tail(dicts))
         IN  IF t.exc # "" THEN [exc |-> t.exc, ret |-> <<>>]
             ELSE IF rest.exc # "" THEN rest
             ELSE [exc |-> "", ret |-> <<t.tx>> \o rest.ret]

load_transaction_email_ids(d, ids, collection) ==
    LET r == get_records(d, collection)
    IN  IF r.exc # "" THEN [exc |-> r.exc, ids |-> ids]
        ELSE With(create_transaction_list(r.ret), LAMBDA txs :
                 IF txs.exc # "" THEN [exc |-> txs.exc, ids |-> ids]
                 ELSE [exc |-> "",
                       ids |-> ids \cup {txs.ret[i].email_id : i \in 1..Len(txs.ret)}])

save_transaction(d, ids, transaction) ==
    LET collection == calculate_collection_from_date(transaction.date)
    IN  With(load_transaction_email_ids(d, ids, collection), LAMBDA l :
            IF l.exc # "" THEN [exc |-> l.exc, d |-> d, ids |-> l.ids]
            ELSE IF transaction.email_id \notin l.ids
            THEN [exc |-> "", ids |-> l.ids,
                  d |-> add_record(d, Transaction_serialize(transaction), collection)]
            ELSE [exc |-> "", ids |-> l.ids, d |-> d])

\* getattr(transaction, key) for the attributes of a Transaction
HasAttr(key) == key \in {"id", "type", "date", "amount", "email_id"}
GetAttr(transaction, key) ==
    CASE key = "id" -> transaction.id
      [] key = "type" -> transaction.type
      [] key = "date" -> transaction.date
      [] key = "amount" -> transaction.amount
      [] key = "email_id" -> transaction.email_id

\* a filter loop that keeps a transaction only when every key matches
MatchAll(transaction, items) ==
    IF \E i \in 1..Len(items) : items[i][1] # "tags" /\ ~HasAttr(items[i][1])
    THEN AttributeError
    ELSE IF \A i \in 1..Len(items) :
                IF items[i][1] = "tags" THEN items[i][2] \cap transaction.tags # {}
                ELSE items[i][2] = GetAttr(transaction, items[i][1])
         THEN "match"
         ELSE "nomatch"

RECURSIVE MatchAny(_, _)
\* the inner loop of filter_transactions: "match", "nomatch" or the exception
MatchAny(transaction, items) ==
    IF items = <<>> THEN "nomatch"
    ELSE LET key == Head(items)[1]
             value == Head(items)[2]
         IN  IF key = "tags"
             THEN IF value \cap transaction.tags # {} THEN "match"
                  ELSE MatchAny(transaction, Tail(items))
             ELSE IF ~HasAttr(key) THEN AttributeError
             ELSE IF value = GetAttr(transaction, key) THEN "match"
             ELSE MatchAny(transaction, Tail(items))

RECURSIVE filter_transactions(_, _)
filter_transactions(transactions, filters) ==
    IF transactions = <<>> THEN [exc |-> "", ret |-> <<>>]
    ELSE LET m == MatchAny(Head(transactions), filters)
             rest == filter_transactions(Tail(transactions), filters)
         IN  IF m \notin {"match", "nomatch"} THEN [exc |-> m, ret |-> <<>>]
             ELSE IF rest.exc # "" THEN rest
             ELSE [exc |-> "",
                   ret |-> (IF m = "match" THEN <<Head(transactions)>> ELSE <<>>)
                           \o rest.ret]

RECURSIVE CollectRecords_until_missing(_, _)
\* the loop left at the first missing collection
CollectRecords_until_missing(d, collections) ==
    IF collections = <<>> THEN <<>>
    ELSE LET r == get_records(d, Head(collections))
         IN  IF r.exc = MissingCollectionError THEN <<>>
             ELSE r.ret \o CollectRecords_until_missing(d, Tail(collections))

RECURSIVE CollectRecords(_, _)
\* the loop of get_transactions: a missing collection contributes nothing
CollectRecords(d, collections) ==
    IF collections = <<>> THEN <<>>
    ELSE LET r == get_records(d, Head(collections))
         IN  (IF r.exc = MissingCollectionError THEN <<>> ELSE r.ret)
             \o CollectRecords(d, Tail(collections))

\* filters is a dict; <<>> stands for None and for the empty dict
get_transactions(d, from_date, to_date, filters) ==
    LET collections == calculate_collections_from_date_range(from_date, to_date)
    IN  IF ~collections.done THEN [exc |-> "diverges", ret |-> <<>>]
        ELSE With(create_transaction_list(CollectRecords(d, collections.collections)),
                  LAMBDA transactions :
                      IF transactions.exc # "" THEN transactions
                      ELSE IF filters # <<>>
                      THEN filter_transactions(transactions.ret, filters)
                      ELSE transactions)

RECURSIVE RemoveFrom(_, _, _)
\* the records with the id removed from every collection of cs
RemoveFrom(d, cs, guid_str) ==
    IF cs = {} THEN d
    ELSE LET c == CHOOSE x \in cs : TRUE
         IN  RemoveFrom(IF File(d, c).exists
                        THEN remove_record(d, "id", guid_str, c).d ELSE d,
                        cs \ {c}, guid_str)

\* the id removed from the partition of the date and from every other one
remove_transaction_everywhere(d, date_str, guid_str) ==
    LET r == remove_record(d, "id", guid_str, calculate_collection_from_date(date_str))
    IN  [exc |-> r.exc,
         d |-> IF r.exc = "" THEN RemoveFrom(d, DOMAIN d, guid_str) ELSE d]

remove_transaction(d, date_str, guid_str) ==
    remove_record(d, "id", guid_str, calculate_collection_from_date(date_str))

check_need_to_move_record(old_date_str, new_date_str) ==
    LET old_date_parts == SplitDash(old_date_str)
        new_date_parts == SplitDash(new_date_str)
    IN  old_date_parts[1] # new_date_parts[1] \/ old_date_parts[2] # new_date_parts[2]

\* the record removed and saved again whether the partition changes or not
update_transaction_always_move(d, ids, old_date_str, data) ==
    LET r == remove_transaction(d, old_date_str, data.id)
    IN  IF r.exc # "" THEN [exc |-> r.exc, d |-> d, ids |-> ids]
        ELSE save_transaction(r.d, ids, data)

\* update_transaction for a Transaction instance
update_transaction(d, ids, old_date_str, data) ==
    IF check_need_to_move_record(old_date_str, data.date)
    THEN LET r == remove_transaction(d, old_date_str, data.id)
         IN  IF r.exc # "" THEN [exc |-> r.exc, d |-> d, ids |-> ids]
             ELSE save_transaction(r.d, ids, data)
    ELSE LET e == edit_record(d, "id", data.id, Transaction_serialize(data),
                              calculate_collection_from_date(data.date))
         IN  [exc |-> e.exc, d |-> e.d, ids |-> ids]

(***************************************************************************)
(* The transaction store driven through one TransactionManager.            *)
(*                                                                         *)
(* The files under ~/.fintool outlive the process: at start a partition is *)
(* either absent or holds its header and no rows.                          *)
(***************************************************************************)
Dates == {"2022-01-01", "2022-02-02"}
Partitions == {calculate_collection_from_date(date) : date \in Dates}
SyncCollections == {"tags", "pending", "untagged", "lastsync"}
Collections == Partitions \cup SyncCollections

Ids == {"i1"}
UuidIds == {Uuid(n) : n \in 0..(MaxUuid - 1)}
EmailIds == {"e1"}
\* type, amount, tags of the transactions given to the manager
TxBodies == {<<"income", "12.3", "a|b">>, <<"outcome", "1", "b">>}

TxHeader == Keys(Transaction_serialize(NoTransaction))
EmptyFile(hdr) == [exists |-> TRUE, hdr |-> hdr, rows |-> <<>>]

\* the keyword arguments of a Transaction; NoneVal leaves the key out
Kwargs(id, body, date, email_id) ==
    (IF id = NoneVal THEN <<>> ELSE << <<"id", id>> >>)
    \o << <<"type", body[1]>>, <<"tags", body[3]>>, <<"date", date>>,
          <<"amount", body[2]>> >>
    \o (IF email_id = NoneVal THEN <<>> ELSE << <<"email_id", email_id>> >>)

RECURSIVE SumRows(_, _)
SumRows(d, cs) ==
    IF cs = {} THEN 0
    ELSE LET c == CHOOSE x \in cs : TRUE
         IN  Len(d[c].rows) + SumRows(d, cs \ {c})
TotalRows(d) == SumRows(d, Partitions)

\* uuid4 returns an id that no stored transaction has: the first free one
FreeUuids(d) ==
    {n \in 0..TotalRows(d) :
        \A c \in Partitions : \A i \in 1..Len(File(d, c).rows) :
            File(d, c).rows[i][1] # Uuid(n)}
uuid4(d) == Uuid(CHOOSE n \in FreeUuids(d) : \A m \in FreeUuids(d) : n <= m)

\* the partitions stay within the bounds: at most MaxRows rows, and the first
\* MaxUuid ids of uuid4 among them
TxBounded(d) ==
    /\ TotalRows(d) <= MaxRows
    /\ \A n \in MaxUuid..TotalRows(d) : n \in FreeUuids(d)

NoLoop == [year |-> 0, month |-> 0, year_limit |-> 0, month_limit |-> 0,
           collections |-> <<>>]

\* the call in progress, its arguments and its outcome
NoCall == [op |-> "", tx |-> NoTransaction, old_date |-> "", guid |-> "",
           from_date |-> "", to_date |-> "", filters |-> <<>>, ret |-> <<>>,
           emails |-> <<>>, target |-> "", collection |-> "", id_field |-> "",
           id_value |-> "", record |-> <<>>, concept |-> "", loop |-> NoLoop,
           exc |-> ""]

NoSaves == [k \in Partitions \X EmailIds |-> 0]
NoRewrite == [pc |-> "idle"]
\* no parser has been built
NoParser == [type |-> "", _data_strs |-> <<>>, _start_tag |-> NoneVal]
\* the processes that use the record store at the same time, none in a call
Procs == {1, 2}
NoProcs == [p \in Procs |-> [pc |-> "idle"]]
\* the provider holds no email; no sync_transactions call is in progress
NoGmail == [emails |-> <<>>, inclusive |-> FALSE]
NoSync == [pc |-> "idle"]

TxInit ==
    /\ disk \in [Collections -> {Missing, EmptyFile(TxHeader)}]
    /\ \A c \in SyncCollections : disk[c] = Missing
    /\ _transaction_email_ids = {}
    /\ last = NoCall
    /\ saves = NoSaves
    /\ now = 0
    /\ rewrite = NoRewrite
    /\ tag_manager = [_tags |-> <<>>]
    /\ email_parser = NoParser
    /\ procs = NoProcs
    /\ gmail = NoGmail
    /\ sync = NoSync

\* TransactionManager(): a new manager, as every command of the cli creates
NewTransactionManager ==
    /\ last = NoCall
    /\ _transaction_email_ids # {}
    /\ _transaction_email_ids' = {}
    /\ UNCHANGED <<disk, last, saves, now, rewrite, tag_manager, email_parser, procs, gmail, sync>>

\* the caller has the outcome of the call; the next call can be made
Return ==
    /\ last # NoCall
    /\ last' = NoCall
    /\ UNCHANGED <<disk, _transaction_email_ids, saves, now, rewrite, tag_manager, email_parser, procs, gmail, sync>>

\* the calls of save_transaction that have ended normally, counted up to two
CountSave(tx, exc) ==
    LET k == <<calculate_collection_from_date(tx.date), tx.email_id>>
    IN  IF exc = "" /\ k \in DOMAIN saves /\ saves[k] < 2
        THEN [saves EXCEPT ![k] = @ + 1]
        ELSE saves

\* Transaction(**kwargs) followed by save_transaction; count says whether the
\* calls are counted in saves
SaveTransaction(count) ==
    /\ last = NoCall
    /\ \E id \in Ids \cup {NoneVal}, body \in TxBodies, date \in Dates,
          email_id \in EmailIds \cup {NoneVal} :
           \E t \in {Transaction(Kwargs(id, body, date, email_id), uuid4(disk))} :
           \E r \in {save_transaction(disk, _transaction_email_ids, t.tx)} :
               /\ TxBounded(r.d)
               /\ disk' = r.d
               /\ _transaction_email_ids' = r.ids
               /\ last' = [NoCall EXCEPT !.op = "save", !.tx = t.tx, !.exc = r.exc]
               /\ saves' = IF count THEN CountSave(t.tx, r.exc) ELSE saves
               /\ UNCHANGED <<now, rewrite, tag_manager, email_parser, procs, gmail, sync>>

\* update_transaction(old_date, Transaction(**kwargs)), the id given
UpdateTransaction ==
    /\ last = NoCall
    /\ \E id \in Ids \cup UuidIds, body \in TxBodies, date \in Dates,
          email_id \in EmailIds \cup {NoneVal, ""}, old_date \in Dates :
           \E t \in {Transaction(Kwargs(id, body, date, email_id), "")} :
           \E r \in {update_transaction(disk, _transaction_email_ids, old_date, t.tx)} :
               /\ TxBounded(r.d)
               /\ disk' = r.d
               /\ _transaction_email_ids' = r.ids
               /\ last' = [NoCall EXCEPT !.op = "update", !.tx = t.tx, !.exc = r.exc,
                                         !.old_date = old_date]
               /\ UNCHANGED <<saves, now, rewrite, tag_manager, email_parser, procs, gmail, sync>>

RemoveTransaction ==
    \E guid \in Ids \cup UuidIds, date \in Dates :
        LET r == remove_transaction(disk, date, guid)
        IN  /\ last = NoCall
            /\ disk' = r.d
            /\ last' = [NoCall EXCEPT !.op = "remove", !.guid = guid, !.exc = r.exc,
                                      !.old_date = date]
            /\ UNCHANGED <<_transaction_email_ids, saves, now, rewrite, tag_manager, email_parser, procs, gmail, sync>>

TxNext ==
    \/ NewTransactionManager
    \/ Return
    \/ SaveTransaction(FALSE)
    \/ UpdateTransaction
    \/ RemoveTransaction

TxSpec == TxInit /\ [][TxNext]_vars

(***************************************************************************)
(* Sequences of save_transaction calls on one or several managers.         *)
(***************************************************************************)
SaveNext ==
    \/ NewTransactionManager
    \/ Return
    \/ SaveTransaction(TRUE)

SaveSpec == TxInit /\ [][SaveNext]_vars

(***************************************************************************)
(* Properties of the transaction manager.                                  *)
(***************************************************************************)
\* the records of a collection whose field has the value
RowsWith(d, collection, field, value) ==
    LET r == get_records(d, collection).ret
    IN  {i \in 1..Len(r) : Get(r[i], field) = value}

\* the transaction carries tx's type, date, amount and tags
SameValues(t, tx) ==
    t.type = tx.type /\ t.date = tx.date /\ t.amount = tx.amount /\ t.tags = tx.tags

\* C1: save_transaction(tx) into a store without tx's partition creates the
\* partition and appends tx; get_transactions over tx's month then returns
\* exactly one transaction, with tx's id, type, date, amount and tags.
C1_SaveCreatesPartition ==
    [][(last'.op = "save"
        /\ ~File(disk, calculate_collection_from_date(last'.tx.date)).exists)
       => LET tx == last'.tx
              got == get_transactions(disk', tx.date, tx.date, <<>>)
          IN  /\ last'.exc = ""
              /\ File(disk', calculate_collection_from_date(tx.date)).exists
              /\ got.exc = ""
              /\ Len(got.ret) = 1
              /\ got.ret[1].id = tx.id
              /\ SameValues(got.ret[1], tx)]_vars

\* C2: update_transaction(old_date, tx) that returns, for a record with tx.id
\* stored in old_date's partition and a tx.date of another partition which
\* holds neither tx.id nor tx's email_id: the old partition holds no record
\* with tx.id and the new one exactly one, carrying tx's values.
C2_UpdateMovesRecord ==
    [][(/\ last'.op = "update"
        /\ last'.exc = ""
        /\ check_need_to_move_record(last'.old_date, last'.tx.date)
        /\ RowsWith(disk, calculate_collection_from_date(last'.old_date),
                    "id", last'.tx.id) # {}
        /\ RowsWith(disk, calculate_collection_from_date(last'.tx.date),
                    "id", last'.tx.id) = {}
        /\ RowsWith(disk, calculate_collection_from_date(last'.tx.date),
                    "email_id", CsvCell(last'.tx.email_id)) = {})
       => LET tx == last'.tx
              old == calculate_collection_from_date(last'.old_date)
              new == calculate_collection_from_date(tx.date)
              got == create_transaction_list(get_records(disk', new).ret).ret
          IN  /\ RowsWith(disk', old, "id", tx.id) = {}
              /\ Cardinality(RowsWith(disk', new, "id", tx.id)) = 1
              /\ \A i \in RowsWith(disk', new, "id", tx.id) : SameValues(got[i], tx)]_vars

\* C3: after two save_transaction calls with the same email_id into the same
\* partition, the partition holds exactly one record with that email_id.
C3_OneRecordPerEmailId ==
    \A k \in DOMAIN saves :
        saves[k] = 2 => Cardinality(RowsWith(disk, k[1], "email_id", k[2])) = 1

(***************************************************************************)
(* Queries over the stores that save_transaction builds.                   *)
(***************************************************************************)
\* the filters given to get_transactions, each a dict in insertion order
FilterTable ==
    << <<>>,
       << <<"type", "income">> >>,
       << <<"tags", {"a"}>> >>,
       << <<"date", "2022-02-02">> >>,
       << <<"amount", "float:1.0">> >>,
       << <<"amount", "1">> >>,
       << <<"email_id", "e1">> >>,
       << <<"type", "income">>, <<"tags", {"b"}>> >>,
       << <<"tags", {"a"}>>, <<"type", "outcome">> >>,
       << <<"type", "income">>, <<"foo", "x">> >> >>

GetTransactions ==
    /\ last = NoCall
    /\ \E from_date \in Dates, to_date \in Dates, i \in 1..Len(FilterTable) :
           \E r \in {get_transactions(disk, from_date, to_date, FilterTable[i])} :
               /\ last' = [NoCall EXCEPT !.op = "get", !.from_date = from_date,
                                         !.to_date = to_date, !.filters = FilterTable[i],
                                         !.ret = r.ret, !.exc = r.exc]
               /\ UNCHANGED <<disk, _transaction_email_ids, saves, now,
                              rewrite, tag_manager, email_parser, procs, gmail, sync>>

QueryNext ==
    \/ NewTransactionManager
    \/ Return
    \/ SaveTransaction(FALSE)
    \/ GetTransactions

QuerySpec == TxInit /\ [][QueryNext]_vars

\* year * 12 + month of a date or of a partition name
MonthIndex(y, m) == ToInt(y) * 12 + ToInt(m)

RECURSIVE StoredFrom(_, _, _, _)
\* the stored transactions of the partitions from month index lo to hi, in the
\* order of the months and, within a month, of the file
StoredFrom(d, ps, lo, hi) ==
    IF ps = {} THEN <<>>
    ELSE LET p == CHOOSE x \in ps :
                      \A y \in ps : MonthIndex(SplitDash(x[1])[1], SplitDash(x[1])[2])
                                      <= MonthIndex(SplitDash(y[1])[1], SplitDash(y[1])[2])
             i == MonthIndex(SplitDash(p[1])[1], SplitDash(p[1])[2])
             f == File(d, p[2])
         IN  (IF lo <= i /\ i <= hi /\ f.exists
              THEN [k \in 1..Len(f.rows) |-> Transaction(RowDict(f.hdr, f.rows[k]), "").tx]
              ELSE <<>>)
             \o StoredFrom(d, ps \ {p}, lo, hi)

StoredInRange(d, from_date, to_date) ==
    StoredFrom(d, {<<date, calculate_collection_from_date(date)>> : date \in Dates},
               MonthIndex(SplitDash(from_date)[1], SplitDash(from_date)[2]),
               MonthIndex(SplitDash(to_date)[1], SplitDash(to_date)[2]))

\* the transaction matches the filter key
MatchesKey(t, key, value) ==
    IF key = "tags" THEN value \cap t.tags # {} ELSE value = GetAttr(t, key)

MatchesSome(t, filters) ==
    \E i \in 1..Len(filters) : MatchesKey(t, filters[i][1], filters[i][2])

KnownKeys(filters) ==
    \A i \in 1..Len(filters) : filters[i][1] = "tags" \/ HasAttr(filters[i][1])

MissingTagArgumentError == "MissingTagArgumentError"

NoTag == [id |-> "", concept |-> "", tags |-> {}]

\* Tag.__init__(concept, tags_str, tag_id); fresh is the value of uuid4().hex
Tag(concept, tags_str, tag_id, fresh) ==
    IF concept \in {NoneVal, ""} \/ tags_str \in {NoneVal, ""}
    THEN [exc |-> MissingTagArgumentError, tag |-> NoTag]
    ELSE [exc |-> "",
          tag |-> [id |-> IF tag_id \in {NoneVal, ""} THEN fresh ELSE tag_id,
                   concept |-> concept,
                   tags |-> Range(SplitPipe(tags_str))]]

Tag_serialize(tag) ==
    << <<"id", tag.id>>, <<"concept", tag.concept>>,
       <<"tags", Join(SetToSeq(tag.tags), "|")>> >>

create_tag(data) ==
    Tag(Get(data, "concept"), Get(data, "tags"), GetOr(data, "id", NoneVal), "")

RECURSIVE create_tag_list(_)
create_tag_list(dataset) ==
    IF dataset = <<>> THEN [exc |-> "", ret |-> <<>>]
    ELSE LET t == create_tag(Head(dataset))
             rest == create_tag_list(Tail(dataset))
         IN  IF t.exc # "" THEN [exc |-> t.exc, ret |-> <<>>]
             ELSE IF rest.exc # "" THEN rest
             ELSE [exc |-> "", ret |-> <<t.tag>> \o rest.ret]

TAGS_COLLECTION == "tags"

get_tags(d) ==
    LET tags == get_records(d, TAGS_COLLECTION)
    IN  IF tags.exc # "" THEN tags ELSE create_tag_list(tags.ret)

\* the scan returning the last tag of the concept instead of the first
match_concpet_last(d, _tags, concept) ==
    With(IF _tags = <<>> THEN get_tags(d) ELSE [exc |-> "", ret |-> _tags],
         LAMBDA loaded :
             LET hits == {i \in 1..Len(loaded.ret) : loaded.ret[i].concept = concept}
             IN  IF loaded.exc # "" THEN [exc |-> loaded.exc, ret |-> {}, _tags |-> _tags]
                 ELSE IF hits # {}
                 THEN [exc |-> "", _tags |-> loaded.ret,
                       ret |-> loaded.ret[CHOOSE i \in hits : \A j \in hits : i >= j].tags]
                 ELSE [exc |-> "", _tags |-> loaded.ret, ret |-> {}])

\* TagManager.match_concpet with self._tags = _tags (<<>> for None and for []);
\* ret is the set of labels, {} for None
match_concpet(d, _tags, concept) ==
    With(IF _tags = <<>> THEN get_tags(d) ELSE [exc |-> "", ret |-> _tags],
         LAMBDA loaded :
             LET hits == {i \in 1..Len(loaded.ret) : loaded.ret[i].concept = concept}
             IN  IF loaded.exc # "" THEN [exc |-> loaded.exc, ret |-> {}, _tags |-> _tags]
                 ELSE IF hits # {}
                 THEN [exc |-> "", _tags |-> loaded.ret,
                       ret |-> loaded.ret[CHOOSE i \in hits : \A j \in hits : i <= j].tags]
                 ELSE [exc |-> "", _tags |-> loaded.ret, ret |-> {}])

\* 'if self._tags: self.load_tags()' after the db operation r of a mutation
ReloadTags(r, _tags) ==
    IF r.exc # "" THEN [exc |-> r.exc, d |-> r.d, _tags |-> _tags]
    ELSE IF _tags = <<>> THEN [exc |-> "", d |-> r.d, _tags |-> _tags]
    ELSE With(get_tags(r.d), LAMBDA loaded :
                  [exc |-> loaded.exc, d |-> r.d,
                   _tags |-> IF loaded.exc = "" THEN loaded.ret ELSE _tags])

\* the mutation that leaves the tags in memory as they are
KeepTags(r, _tags) == [exc |-> r.exc, d |-> r.d, _tags |-> _tags]

\* TagManager.add_tag, update_tag and delete_tag for a Tag instance, with
\* self._tags = _tags
add_tag_no_reload(d, _tags, tag) ==
    KeepTags([exc |-> "", d |-> add_record(d, Tag_serialize(tag), TAGS_COLLECTION)],
             _tags)
add_tag(d, _tags, tag) ==
    ReloadTags([exc |-> "", d |-> add_record(d, Tag_serialize(tag), TAGS_COLLECTION)],
               _tags)
update_tag(d, _tags, tag) ==
    ReloadTags(edit_record(d, "id", tag.id, Tag_serialize(tag), TAGS_COLLECTION), _tags)
delete_tag(d, _tags, tag) ==
    ReloadTags(remove_record(d, "id", tag.id, TAGS_COLLECTION), _tags)

\* TagManager.delete_tag for a str, the id that RemoveTag and test_delete_tag
\* pass: the debug line reads tag.id, which a str does not have, before the
\* isinstance check is reached
delete_tag_of_str(d, _tags, tag) ==
    [exc |-> AttributeError, d |-> d, _tags |-> _tags]

\* TagManager.get_tag: ret holds the first tag read with the id, <<>> for None
get_tag(d, id_value) ==
    With(get_tags(d),
         LAMBDA loaded :
             LET hits == {i \in 1..Len(loaded.ret) : loaded.ret[i].id = id_value}
             IN  IF loaded.exc # "" THEN [exc |-> loaded.exc, ret |-> <<>>]
                 ELSE IF hits # {}
                 THEN [exc |-> "",
                       ret |-> <<loaded.ret[CHOOSE i \in hits : \A j \in hits : i <= j]>>]
                 ELSE [exc |-> "", ret |-> <<>>])

(***************************************************************************)
(* fintool/email.py : TransactionEmail                                     *)
(***************************************************************************)
\* tags is the set of labels, {} for None (the labels of a Tag are never empty)
TransactionEmail(concept, date, amount, email_id, tags) ==
    [concept |-> concept, date |-> date, amount |-> amount, email_id |-> email_id,
     tags |-> tags]

TransactionEmail_from_dict(data) ==
    IF \A k \in {"concept", "date", "amount", "email_id"} : Has(data, k)
    THEN [exc |-> "",
          ret |-> TransactionEmail(Get(data, "concept"), Get(data, "date"),
                                   Get(data, "amount"), Get(data, "email_id"), {})]
    ELSE [exc |-> MissingFieldError, ret |-> TransactionEmail("", "", "", "", {})]

\* str(S) for the sets of labels of the model
SetReprTable == [S \in (SUBSET Labels) \ {{}} |-> SetRepr(S)]

\* TransactionEmail.serialize; the csv writer writes str(tags) for a set
TransactionEmail_serialize(e) ==
    << <<"concept", e.concept>>, <<"date", e.date>>, <<"amount", e.amount>>,
       <<"email_id", e.email_id>>,
       <<"tags", IF e.tags = {} THEN NoneVal ELSE SetReprTable[e.tags]>> >>

(***************************************************************************)
(* fintool/sync.py : SyncManager                                           *)
(***************************************************************************)
NoTagsError == "NoTagsError"
PENDING_COLLECTION == "pending"
UNTAGGED_COLLECTION == "untagged"
LAST_SYNC == "lastsync"

MaxNow == 2    \* the clock runs from 0 to MaxNow

\* int(s) for the timestamps of the model
IntOfStr(s) == CHOOSE n \in 0..MaxNow : ToString(n) = s

NoLastSync == [last_sync |-> -1, target |-> NoneVal]

\* LastSync(**record)
LastSync(record) ==
    [last_sync |-> IntOfStr(Get(record, "last_sync")), target |-> Get(record, "target")]

LastSync_serialize(ls) ==
    << <<"last_sync", ToString(ls.last_sync)>>, <<"target", ls.target>> >>

Target(provider, email_type, mail_boxes) ==
    provider \o "," \o email_type \o "," \o mail_boxes

\* the first LastSync of the collection with the target, or NoLastSync for None
get_last_sync(d, provider, email_type, mail_boxes, collection) ==
    LET target == Target(provider, email_type, mail_boxes)
        records == get_records(d, collection)
        hits == {i \in 1..Len(records.ret) : LastSync(records.ret[i]).target = target}
    IN  IF records.exc # "" THEN [exc |-> records.exc, ret |-> NoLastSync]
        ELSE IF hits # {}
        THEN [exc |-> "",
              ret |-> LastSync(records.ret[CHOOSE i \in hits : \A j \in hits : i <= j])]
        ELSE [exc |-> "", ret |-> NoLastSync]

remove_last_sync(d, provider, email_type, mail_boxes, collection) ==
    With(get_last_sync(d, provider, email_type, mail_boxes, collection),
         LAMBDA last_sync :
             IF last_sync.exc # "" THEN [exc |-> last_sync.exc, d |-> d]
             ELSE IF last_sync.ret # NoLastSync
             THEN remove_record(d, "last_sync", ToString(last_sync.ret.last_sync),
                                collection)
             ELSE [exc |-> "", d |-> d])

save_last_sync(d, provider, email_type, mail_boxes, last_sync_timestamp, collection) ==
    add_record(d,
               LastSync_serialize([last_sync |-> last_sync_timestamp,
                                   target |-> Target(provider, email_type, mail_boxes)]),
               collection)

update_last_sync(d, provider, email_type, mail_boxes, last_sync_timestamp, collection) ==
    With(remove_last_sync(d, provider, email_type, mail_boxes, collection),
         LAMBDA r :
             IF r.exc \notin {"", MissingCollectionError} THEN [exc |-> r.exc, d |-> d]
             ELSE [exc |-> "",
                   d |-> save_last_sync(r.d, provider, email_type, mail_boxes,
                                        last_sync_timestamp, collection)])

\* a tagging loop that lists every email as untagged, tagged or not
tag_transaction_emails_no_else(d, _tags, transaction_emails) ==
    LET m(e) == match_concpet(d, _tags, e.concept)
        failed == {i \in 1..Len(transaction_emails) : m(transaction_emails[i]).exc # ""}
        tagged == SelectSeq(transaction_emails, LAMBDA e : m(e).ret # {})
    IN  IF failed # {}
        THEN [exc |-> m(transaction_emails[CHOOSE i \in failed : TRUE]).exc,
              tagged |-> <<>>, untagged |-> <<>>]
        ELSE [exc |-> "",
              tagged |-> [i \in 1..Len(tagged) |->
                             [tagged[i] EXCEPT !.tags = m(tagged[i]).ret]],
              untagged |-> transaction_emails]

RECURSIVE tag_transaction_emails(_, _, _)
\* the TaggingResult, or the exception of match_concpet
tag_transaction_emails(d, _tags, transaction_emails) ==
    IF transaction_emails = <<>>
    THEN [exc |-> "", tagged |-> <<>>, untagged |-> <<>>]
    ELSE With(match_concpet(d, _tags, Head(transaction_emails).concept), LAMBDA m :
             LET e == Head(transaction_emails)
                 rest == tag_transaction_emails(d, m._tags, Tail(transaction_emails))
             IN  IF m.exc # "" THEN [exc |-> m.exc, tagged |-> <<>>, untagged |-> <<>>]
                 ELSE IF rest.exc # "" THEN rest
                 ELSE IF m.ret # {}
                 THEN [rest EXCEPT !.tagged = <<[e EXCEPT !.tags = m.ret]>> \o @]
                 ELSE [rest EXCEPT !.untagged = <<e>> \o @])

RECURSIVE save_transaction_emails(_, _, _)
save_transaction_emails(d, transaction_emails, collection) ==
    IF transaction_emails = <<>> THEN d
    ELSE save_transaction_emails(
             add_record(d, TransactionEmail_serialize(Head(transaction_emails)),
                        collection),
             Tail(transaction_emails), collection)

\* sync_transactions of a new SyncManager; transaction_emails is the result of
\* fetch_transaction_emails and timestamp the value of int(time.time())
sync_transactions(d, provider, email_type, mail_boxes, transaction_emails, timestamp) ==
    With(tag_transaction_emails(d, <<>>, transaction_emails), LAMBDA tagging_result :
        LET saved == IF tagging_result.exc = ""
                     THEN save_transaction_emails(
                              save_transaction_emails(d, tagging_result.tagged,
                                                      PENDING_COLLECTION),
                              tagging_result.untagged, UNTAGGED_COLLECTION)
                     ELSE save_transaction_emails(d, transaction_emails,
                                                  UNTAGGED_COLLECTION)
        IN  IF tagging_result.exc \notin {"", NoTagsError}
            THEN [exc |-> tagging_result.exc, d |-> d]
            ELSE update_last_sync(saved, provider, email_type, mail_boxes, timestamp,
                                  LAST_SYNC))

RECURSIVE TransactionEmails(_)
\* [TransactionEmail.from_dict(record) for record in records]
TransactionEmails(records) ==
    IF records = <<>> THEN [exc |-> "", ret |-> <<>>]
    ELSE LET e == TransactionEmail_from_dict(Head(records))
             rest == TransactionEmails(Tail(records))
         IN  IF e.exc # "" THEN [exc |-> e.exc, ret |-> <<>>]
             ELSE IF rest.exc # "" THEN rest
             ELSE [exc |-> "", ret |-> <<e.ret>> \o rest.ret]

load_untagged_transactions(d) ==
    LET records == get_records(d, UNTAGGED_COLLECTION)
    IN  IF records.exc # "" THEN records ELSE TransactionEmails(records.ret)

\* TaggedTransaction(**record): the cells under tags, concept, email_id, date
\* and amount, None for a missing key
TaggedTransaction(record) ==
    [k \in {"tags", "concept", "email_id", "date", "amount"} |-> GetOr(record, k, NoneVal)]

load_pending_transactions(d) ==
    LET records == get_records(d, PENDING_COLLECTION)
    IN  IF records.exc # "" THEN records
        ELSE [exc |-> "",
              ret |-> [i \in 1..Len(records.ret) |-> TaggedTransaction(records.ret[i])]]

\* CsvDb.remove_collection: the collection and its records are gone
remove_collection(d, collection) ==
    IF collection \in DOMAIN d THEN [d EXCEPT ![collection] = Missing] ELSE d

RECURSIVE CommitLoop(_, _, _)
\* the loop of commit_transactions over the pending transactions
CommitLoop(d, ids, pending) ==
    IF pending = <<>> THEN [exc |-> "", d |-> d, ids |-> ids]
    ELSE LET tagged_transaction == Head(pending)
             t == Transaction(<< <<"type", "outcome">>,
                                 <<"tags", tagged_transaction.tags>>,
                                 <<"date", tagged_transaction.date>>,
                                 <<"amount", tagged_transaction.amount>>,
                                 <<"email_id", tagged_transaction.email_id>> >>,
                              uuid4(d))
         IN  IF t.exc # "" THEN [exc |-> t.exc, d |-> d, ids |-> ids]
             ELSE With(save_transaction(d, ids, t.tx), LAMBDA s :
                      IF s.exc # "" THEN s
                      ELSE CommitLoop(s.d, s.ids, Tail(pending)))

commit_transactions(d) ==
    LET pending == load_pending_transactions(d)
    IN  IF pending.exc # "" THEN [exc |-> pending.exc, d |-> d]
        ELSE With(CommitLoop(d, {}, pending.ret), LAMBDA moved :
                 IF moved.exc # "" THEN [exc |-> moved.exc, d |-> moved.d]
                 ELSE [exc |-> "",
                       d |-> remove_collection(moved.d, PENDING_COLLECTION)])

\* a tag_transactions that appends to untagged without clearing it
tag_transactions_merge(d) ==
    LET untagged_transactions == load_untagged_transactions(d)
    IN  IF untagged_transactions.exc # ""
        THEN [exc |-> untagged_transactions.exc, d |-> d]
        ELSE With(tag_transaction_emails(d, <<>>, untagged_transactions.ret),
                  LAMBDA tagging_result :
                      IF tagging_result.exc # ""
                      THEN [exc |-> tagging_result.exc, d |-> d]
                      ELSE [exc |-> "",
                            d |-> save_transaction_emails(
                                      save_transaction_emails(d, tagging_result.tagged,
                                                              PENDING_COLLECTION),
                                      tagging_result.untagged, UNTAGGED_COLLECTION)])

tag_transactions(d) ==
    LET untagged_transactions == load_untagged_transactions(d)
    IN  IF untagged_transactions.exc # ""
        THEN [exc |-> untagged_transactions.exc, d |-> d]
        ELSE With(tag_transaction_emails(d, <<>>, untagged_transactions.ret),
                  LAMBDA tagging_result :
                      IF tagging_result.exc # ""
                      THEN [exc |-> tagging_result.exc, d |-> d]
                      ELSE [exc |-> "",
                            d |-> save_transaction_emails(
                                      remove_collection(
                                          save_transaction_emails(
                                              d, tagging_result.tagged,
                                              PENDING_COLLECTION),
                                          UNTAGGED_COLLECTION),
                                      tagging_result.untagged, UNTAGGED_COLLECTION)])

(***************************************************************************)
(* The sync pipeline: every command runs on a new SyncManager.             *)
(***************************************************************************)
MaxTags == 2        \* tag rules stored at one time
MaxPending == 2     \* records held by the pending collection
MaxUntagged == 2    \* records held by the untagged collection

\* the emails of the mailbox as parse_email returns them
Mail ==
    {TransactionEmail("uber", "2022-01-01", "12.3", "e1", {}),
     TransactionEmail("oxxo", "2022-02-02", "1", "e2", {})}
\* the results of fetch_transaction_emails
Batches ==
    {<<>>} \cup {<<e>> : e \in Mail} \cup {b \in Mail \X Mail : b[1] # b[2]}
\* concept and tags of the rules given to add_tag
TagRules == {<<"uber", "a|b">>, <<"uber", "b">>, <<"oxxo", "b">>}
TagIds == {"t" \o ToString(n) : n \in 1..MaxTags}
MailBoxes == {"inbox", "bank"}

Rows(d, collection) == File(d, collection).rows

\* uuid4 returns an id that no stored tag has
FreeTagIds(d) ==
    {n \in 1..MaxTags :
        \A i \in 1..Len(Rows(d, TAGS_COLLECTION)) :
            Rows(d, TAGS_COLLECTION)[i][1] # "t" \o ToString(n)}

\* the files of the sync pipeline stay within the bounds
SyncBounded(d) ==
    /\ Len(Rows(d, PENDING_COLLECTION)) <= MaxPending
    /\ Len(Rows(d, UNTAGGED_COLLECTION)) <= MaxUntagged

\* TagManager().add_tag(Tag(concept, tags))
AddTag ==
    \E rule \in TagRules :
        LET n == CHOOSE n \in FreeTagIds(disk) : \A m \in FreeTagIds(disk) : n <= m
            t == Tag(rule[1], rule[2], NoneVal, "t" \o ToString(n))
        IN  /\ last = NoCall
            /\ FreeTagIds(disk) # {}
            /\ disk' = add_tag(disk, <<>>, t.tag).d
            /\ last' = [NoCall EXCEPT !.op = "add_tag", !.guid = t.tag.id]
            /\ UNCHANGED <<_transaction_email_ids, saves, now, rewrite, tag_manager, email_parser, procs, gmail, sync>>

\* TagManager().delete_tag(tag)
DeleteTag ==
    \E tag_id \in TagIds :
        LET r == delete_tag(disk, <<>>, [NoTag EXCEPT !.id = tag_id])
        IN  /\ last = NoCall
            /\ disk' = r.d
            /\ last' = [NoCall EXCEPT !.op = "delete_tag", !.guid = tag_id,
                                      !.exc = r.exc]
            /\ UNCHANGED <<_transaction_email_ids, saves, now, rewrite, tag_manager, email_parser, procs, gmail, sync>>

\* SyncManager().sync_transactions(SyncDetails(provider, bank, mail_box, ''))
SyncTransactions(mail_boxes, batches) ==
    /\ last = NoCall
    /\ \E mail_box \in mail_boxes, transaction_emails \in batches :
           \E r \in {sync_transactions(disk, "gmail", "banamex", mail_box,
                                        transaction_emails, now)} :
               /\ SyncBounded(r.d)
               /\ disk' = r.d
               /\ last' = [NoCall EXCEPT !.op = "sync", !.emails = transaction_emails,
                                         !.target = Target("gmail", "banamex", mail_box),
                                         !.exc = r.exc]
               /\ UNCHANGED <<_transaction_email_ids, saves, now, rewrite, tag_manager, email_parser, procs, gmail, sync>>

\* SyncManager().tag_transactions()
TagTransactions ==
    /\ last = NoCall
    /\ \E r \in {tag_transactions(disk)} :
           /\ SyncBounded(r.d)
           /\ disk' = r.d
           /\ last' = [NoCall EXCEPT !.op = "tag",
                                     !.emails = load_untagged_transactions(disk).ret,
                                     !.exc = r.exc]
           /\ UNCHANGED <<_transaction_email_ids, saves, now, rewrite, tag_manager, email_parser, procs, gmail, sync>>

\* SyncManager().commit_transactions()
CommitTransactions ==
    /\ last = NoCall
    /\ \E r \in {commit_transactions(disk)} :
           /\ TxBounded(r.d)
           /\ disk' = r.d
           /\ last' = [NoCall EXCEPT !.op = "commit", !.exc = r.exc]
           /\ UNCHANGED <<_transaction_email_ids, saves, now, rewrite, tag_manager, email_parser, procs, gmail, sync>>

\* TransactionManager().update_transaction(tx.date, tx with a new date) for a
\* transaction tx read from the store
MoveTransaction ==
    /\ last = NoCall
    /\ \E date \in Dates : \E old_date \in Dates \ {date} :
           \E stored \in {get_transactions(disk, old_date, old_date, <<>>)} :
               \E i \in 1..Len(stored.ret) :
                   \E tx \in {[stored.ret[i] EXCEPT !.date = date]} :
                   \E r \in {update_transaction(disk, {}, old_date, tx)} :
                       /\ stored.exc = ""
                       /\ TxBounded(r.d)
                       /\ disk' = r.d
                       /\ last' = [NoCall EXCEPT !.op = "update", !.tx = tx,
                                                 !.exc = r.exc, !.old_date = old_date]
                       /\ UNCHANGED <<_transaction_email_ids, saves, now, rewrite, tag_manager, email_parser, procs, gmail, sync>>

\* a second passes
Tick ==
    /\ now < MaxNow
    /\ now' = now + 1
    /\ UNCHANGED <<disk, _transaction_email_ids, last, saves, rewrite, tag_manager, email_parser, procs, gmail, sync>>

SyncNext ==
    \/ Return
    \/ AddTag
    \/ DeleteTag
    \/ SyncTransactions({"inbox"}, Batches)
    \/ TagTransactions

SyncSpec == TxInit /\ [][SyncNext]_vars

CommitNext ==
    \/ Return
    \/ AddTag
    \/ SyncTransactions({"inbox"}, Batches)
    \/ CommitTransactions
    \/ MoveTransaction

CommitSpec == TxInit /\ [][CommitNext]_vars

CheckpointNext ==
    \/ Return
    \/ Tick
    \/ SyncTransactions(MailBoxes, {b \in Batches : Len(b) <= 1})

CheckpointSpec == TxInit /\ [][CheckpointNext]_vars

(***************************************************************************)
(* Properties of the sync pipeline.                                        *)
(***************************************************************************)
\* the labels of the first stored tag rule with the concept, {} when none
RuleLabels(d, concept) ==
    LET f == File(d, TAGS_COLLECTION)
        hits == {i \in 1..Len(f.rows) : Get(RowDict(f.hdr, f.rows[i]), "concept") = concept}
    IN  IF hits = {} THEN {}
        ELSE Range(SplitPipe(Get(RowDict(f.hdr,
                 f.rows[CHOOSE i \in hits : \A j \in hits : i <= j]), "tags")))

\* the record of a collection of emails: concept, date, amount, email_id and
\* the labels as str(set), empty when there are none
EmailRow(concept, date, amount, email_id, labels) ==
    <<concept, date, amount, email_id,
      IF labels = {} THEN "" ELSE SetReprTable[labels]>>

\* the records of the emails whose concept has a rule, with the rule's labels
MatchedRows(d, emails) ==
    LET m == SelectSeq(emails, LAMBDA e : RuleLabels(d, e.concept) # {})
    IN  [i \in 1..Len(m) |-> EmailRow(m[i].concept, m[i].date, m[i].amount,
                                      m[i].email_id, RuleLabels(d, m[i].concept))]

\* the records of the emails whose concept has no rule
UnmatchedRows(d, emails) ==
    LET m == SelectSeq(emails, LAMBDA e : RuleLabels(d, e.concept) = {})
    IN  [i \in 1..Len(m) |-> EmailRow(m[i].concept, m[i].date, m[i].amount,
                                      m[i].email_id, {})]

\* C5: with at least one tag rule stored, sync_transactions appends every
\* email of the batch to exactly one collection: to pending with the labels of
\* the rule of its concept, to untagged when its concept has no rule; pending
\* and untagged change in no other way.
C5_SyncAppendsToOneCollection ==
    [][(last'.op = "sync" /\ Rows(disk, TAGS_COLLECTION) # <<>>)
       => /\ last'.exc = ""
          /\ Rows(disk', PENDING_COLLECTION)
                 = Rows(disk, PENDING_COLLECTION) \o MatchedRows(disk, last'.emails)
          /\ Rows(disk', UNTAGGED_COLLECTION)
                 = Rows(disk, UNTAGGED_COLLECTION) \o UnmatchedRows(disk, last'.emails)]_vars

\* a sync of two emails has ended, one appended to pending with two labels and
\* the other appended to untagged
C5_Witness ==
    /\ last.op = "sync"
    /\ last.exc = ""
    /\ Len(last.emails) = 2
    /\ Rows(disk, TAGS_COLLECTION) # <<>>
    /\ Len(MatchedRows(disk, last.emails)) = 1
    /\ Len(UnmatchedRows(disk, last.emails)) = 1
    /\ Len(Rows(disk, PENDING_COLLECTION)) = 2
    /\ Rows(disk, PENDING_COLLECTION)[2] = MatchedRows(disk, last.emails)[1]
    /\ Rows(disk, PENDING_COLLECTION)[2][5] = SetReprTable[{"a", "b"}]
    /\ Rows(disk, UNTAGGED_COLLECTION)[Len(Rows(disk, UNTAGGED_COLLECTION))]
           = UnmatchedRows(disk, last.emails)[1]

\* C6: with no tag rule in the system (the tags collection missing or empty),
\* sync_transactions appends all the emails of the batch to untagged, none to
\* pending, and persists the checkpoint of the target.
C6_NoTagsAllUntagged ==
    [][(last'.op = "sync" /\ Rows(disk, TAGS_COLLECTION) = <<>>)
       => /\ last'.exc = ""
          /\ Rows(disk', UNTAGGED_COLLECTION)
                 = Rows(disk, UNTAGGED_COLLECTION)
                   \o [i \in 1..Len(last'.emails) |->
                          EmailRow(last'.emails[i].concept, last'.emails[i].date,
                                   last'.emails[i].amount, last'.emails[i].email_id, {})]
          /\ Rows(disk', PENDING_COLLECTION) = Rows(disk, PENDING_COLLECTION)
          /\ \E i \in 1..Len(Rows(disk', LAST_SYNC)) :
                 Rows(disk', LAST_SYNC)[i] = <<ToString(now), last'.target>>]_vars

\* C7: after commit_transactions returns, every record that was in pending has
\* a transaction in the partition of its date, of type outcome and with the
\* record's date, amount and email_id, and pending holds no records.
C7_CommitMovesPending ==
    [][(last'.op = "commit" /\ last'.exc = "")
       => /\ Rows(disk', PENDING_COLLECTION) = <<>>
          /\ \A i \in 1..Len(Rows(disk, PENDING_COLLECTION)) :
                 LET rec == RowDict(File(disk, PENDING_COLLECTION).hdr,
                                    Rows(disk, PENDING_COLLECTION)[i])
                     stored == create_transaction_list(
                                   get_records(disk',
                                       calculate_collection_from_date(Get(rec, "date"))).ret)
                 IN  /\ stored.exc = ""
                     /\ \E k \in 1..Len(stored.ret) :
                            /\ stored.ret[k].type = "outcome"
                            /\ stored.ret[k].date = Get(rec, "date")
                            /\ stored.ret[k].amount = Float(Get(rec, "amount"))
                            /\ stored.ret[k].email_id = Get(rec, "email_id")]_vars

\* the untagged records with a rule for their concept, as pending records
RetaggedRows(d) ==
    LET f == File(d, UNTAGGED_COLLECTION)
        m == SelectSeq(f.rows, LAMBDA r : RuleLabels(d, Get(RowDict(f.hdr, r), "concept")) # {})
    IN  [i \in 1..Len(m) |->
            EmailRow(m[i][1], m[i][2], m[i][3], m[i][4], RuleLabels(d, m[i][1]))]

\* C8: after tag_transactions returns, untagged holds exactly the previously
\* untagged records whose concept has no rule, and pending has gained exactly
\* the previously untagged records whose concept has a rule, with its labels.
C8_TagTransactionsSplitsUntagged ==
    [][(last'.op = "tag" /\ last'.exc = "")
       => LET f == File(disk, UNTAGGED_COLLECTION)
          IN  /\ Rows(disk', UNTAGGED_COLLECTION)
                     = SelectSeq(f.rows,
                           LAMBDA r : RuleLabels(disk, Get(RowDict(f.hdr, r), "concept")) = {})
              /\ Rows(disk', PENDING_COLLECTION)
                     = Rows(disk, PENDING_COLLECTION) \o RetaggedRows(disk)]_vars

\* tag_transactions has ended on two untagged records: one is now the last
\* record of pending, the other the only record of untagged
C8_Witness ==
    /\ last.op = "tag"
    /\ last.exc = ""
    /\ Len(last.emails) = 2
    /\ Len(Rows(disk, UNTAGGED_COLLECTION)) = 1
    /\ Len(Rows(disk, PENDING_COLLECTION)) >= 1
    /\ \E i \in 1..2 :
           /\ Rows(disk, PENDING_COLLECTION)[Len(Rows(disk, PENDING_COLLECTION))][4]
                  = last.emails[i].email_id
           /\ Rows(disk, UNTAGGED_COLLECTION)[1][4] = last.emails[3 - i].email_id

\* the checkpoints stored for a target
Checkpoints(d, target) == SelectSeq(Rows(d, LAST_SYNC), LAMBDA r : r[2] = target)

\* C9: a sync_transactions for one target leaves the checkpoints stored for
\* every other target as they were.
C9_CheckpointsIndependent ==
    [][last'.op = "sync"
       => \A mail_box \in MailBoxes :
              Target("gmail", "banamex", mail_box) # last'.target
              => Checkpoints(disk', Target("gmail", "banamex", mail_box))
                     = Checkpoints(disk, Target("gmail", "banamex", mail_box))]_vars

(***************************************************************************)
(* CsvDb.remove_record and CsvDb.edit_record step by step: the collection  *)
(* file is read and a temporary file written row by row, then the          *)
(* temporary file replaces the collection file.  A step can fail (an       *)
(* OSError of a write, a KeyError of row[id_field], the end of the         *)
(* process); the files stay as they are at that moment.                    *)
(***************************************************************************)
\* RECORDS_FILE_TMP.format(collection), relative to the collection's file
TmpName(collection) == collection \o ".csv.tmp"

\* a create_collection_objects that hands out the collection file twice
create_collection_objects_in_place(collection) == <<collection, collection>>

\* the collection file and the temporary file
create_collection_objects(collection) == <<collection, TmpName(collection)>>

\* no rewrite is in progress
Stopped == {"idle", "done", "failed"}

CrashInit ==
    /\ disk = [c \in Collections \cup {TmpName(TAGS_COLLECTION)} |-> Missing]
    /\ _transaction_email_ids = {}
    /\ last = NoCall
    /\ saves = NoSaves
    /\ now = 0
    /\ rewrite = NoRewrite
    /\ tag_manager = [_tags |-> <<>>]
    /\ email_parser = NoParser
    /\ procs = NoProcs
    /\ gmail = NoGmail
    /\ sync = NoSync

\* TagManager().add_tag between two rewrites
AddTagStopped == rewrite.pc \in Stopped /\ AddTag

\* remove_record or edit_record opens the collection file and reads its
\* header, then opens the temporary file for writing
RewriteOpen ==
    \E op \in {"remove", "edit"}, tag_id \in TagIds, rule \in TagRules :
        LET files == create_collection_objects(TAGS_COLLECTION)
            f == File(disk, files[1])
        IN  /\ rewrite.pc \in Stopped
            /\ op = "remove" => rule = CHOOSE r \in TagRules : TRUE
            /\ IF f.exists
               THEN /\ rewrite' = [pc |-> "header", op |-> op,
                                   collection |-> files[1], tmp |-> files[2],
                                   id_field |-> "id", id_value |-> tag_id,
                                   new_record |->
                                       Tag_serialize(Tag(rule[1], rule[2], tag_id, "").tag),
                                   field_names |-> f.hdr, todo |-> f.rows,
                                   before |-> f]
                    /\ disk' = [disk EXCEPT ![files[2]] = EmptyFile(<<>>)]
               ELSE /\ rewrite' = NoRewrite
                    /\ disk' = disk
            /\ UNCHANGED <<_transaction_email_ids, last, saves, now, tag_manager, email_parser, procs, gmail, sync>>

\* writer.writeheader()
RewriteHeader ==
    /\ rewrite.pc = "header"
    /\ disk' = [disk EXCEPT ![rewrite.tmp].hdr = rewrite.field_names]
    /\ rewrite' = [rewrite EXCEPT !.pc = "rows"]
    /\ UNCHANGED <<_transaction_email_ids, last, saves, now, tag_manager, email_parser, procs, gmail, sync>>

\* one turn of the loop over the reader
RewriteRow ==
    /\ rewrite.pc = "rows"
    /\ rewrite.todo # <<>>
    /\ LET row == RowDict(rewrite.field_names, Head(rewrite.todo))
       IN  disk' = IF Get(row, rewrite.id_field) # rewrite.id_value
                   THEN [disk EXCEPT ![rewrite.tmp].rows =
                            Append(@, WriteRow(rewrite.field_names, row))]
                   ELSE IF rewrite.op = "edit"
                   THEN [disk EXCEPT ![rewrite.tmp].rows =
                            Append(@, WriteRow(rewrite.field_names, rewrite.new_record))]
                   ELSE disk
    /\ rewrite' = [rewrite EXCEPT !.todo = Tail(@)]
    /\ UNCHANGED <<_transaction_email_ids, last, saves, now, tag_manager, email_parser, procs, gmail, sync>>

\* pathlib.Path(collection_tmp_file).replace(collection_file)
RewriteReplace ==
    /\ rewrite.pc = "rows"
    /\ rewrite.todo = <<>>
    /\ disk' = [[disk EXCEPT ![rewrite.collection] = disk[rewrite.tmp]]
                   EXCEPT ![rewrite.tmp] =
                       IF rewrite.tmp = rewrite.collection THEN @ ELSE Missing]
    /\ rewrite' = [rewrite EXCEPT !.pc = "done"]
    /\ UNCHANGED <<_transaction_email_ids, last, saves, now, tag_manager, email_parser, procs, gmail, sync>>

\* the operation fails or the process ends before the replacement
RewriteFail ==
    /\ rewrite.pc \in {"header", "rows"}
    /\ rewrite' = [rewrite EXCEPT !.pc = "failed"]
    /\ UNCHANGED <<disk, _transaction_email_ids, last, saves, now, tag_manager, email_parser, procs, gmail, sync>>

CrashNext ==
    \/ Return
    \/ AddTagStopped
    \/ RewriteOpen
    \/ RewriteHeader
    \/ RewriteRow
    \/ RewriteReplace
    \/ RewriteFail

CrashSpec == CrashInit /\ [][CrashNext]_vars

\* the collection file that the whole remove_record or edit_record produces
\* from the file the rewrite started on
Rewritten(rw) ==
    LET d == [c \in {rw.collection} |-> rw.before]
    IN  IF rw.op = "remove"
        THEN remove_record(d, rw.id_field, rw.id_value, rw.collection).d[rw.collection]
        ELSE edit_record(d, rw.id_field, rw.id_value, rw.new_record,
                         rw.collection).d[rw.collection]

\* C10: after every step of remove_record and edit_record, whether the
\* operation goes on, fails or ends, get_records returns the complete old
\* sequence of records or the complete new one.
C10_RewriteNeverPartial ==
    [][(rewrite' # rewrite /\ rewrite'.pc # "idle")
       => /\ get_records(disk', rewrite'.collection).exc = ""
          /\ get_records(disk', rewrite'.collection).ret
                 \in {get_records([c \in {rewrite'.collection} |-> rewrite'.before],
                                  rewrite'.collection).ret,
                      get_records([c \in {rewrite'.collection} |-> Rewritten(rewrite')],
                                  rewrite'.collection).ret}]_vars

\* a rewrite that changes a collection of two records has failed after the
\* first row: the temporary file holds one row, the collection the old two
C10_Witness ==
    /\ rewrite.pc = "failed"
    /\ Len(rewrite.before.rows) = 2
    /\ Len(rewrite.todo) = 1
    /\ Rewritten(rewrite) # rewrite.before
    /\ File(disk, rewrite.tmp).exists
    /\ Len(File(disk, rewrite.tmp).rows) = 1
    /\ File(disk, rewrite.collection) = rewrite.before

(***************************************************************************)
(* The partition names of a date range                                     *)
(***************************************************************************)
RangeYears == {"2020", "2021", "2022"}
\* the first day of every month of RangeYears
RangeDates == {Join(<<y, m, "01">>, "-") : y \in RangeYears, m \in MonthStrs}

\* TransactionManager().calculate_collections_from_date_range(from, to) is
\* called: the statements before the while loop
CalculateCollectionsFromDateRange ==
    /\ last = NoCall
    /\ \E from_date \in RangeDates, to_date \in RangeDates :
           /\ last' = [NoCall EXCEPT !.op = "range_loop", !.from_date = from_date,
                                     !.to_date = to_date,
                                     !.loop = RangeLoopInit(from_date, to_date)]
           /\ UNCHANGED <<disk, _transaction_email_ids, saves, now, rewrite,
                          tag_manager, email_parser, procs, gmail, sync>>

\* one iteration of the while loop; a loop that never ends is followed for
\* MaxLoop collections
RangeLoopIterate ==
    /\ last.op = "range_loop"
    /\ ~RangeLoopDone(last.loop)
    /\ Len(last.loop.collections) < MaxLoop
    /\ last' = [last EXCEPT !.loop = RangeLoopStep(@)]
    /\ UNCHANGED <<disk, _transaction_email_ids, saves, now, rewrite, tag_manager, email_parser, procs, gmail, sync>>

\* the while loop ends and the collections are returned
RangeLoopReturn ==
    /\ last.op = "range_loop"
    /\ RangeLoopDone(last.loop)
    /\ last' = [last EXCEPT !.op = "range", !.ret = last.loop.collections]
    /\ UNCHANGED <<disk, _transaction_email_ids, saves, now, rewrite, tag_manager, email_parser, procs, gmail, sync>>

RangeNext ==
    \/ CalculateCollectionsFromDateRange
    \/ RangeLoopIterate
    \/ RangeLoopReturn
    \/ (last.op = "range" /\ Return)

RangeSpec == TxInit /\ [][RangeNext]_vars

\* 'YYYY/MM' of the month whose index (year * 12 + month) is k
MonthKey(k) == ToString((k - 1) \div 12) \o "/" \o Pad2(((k - 1) % 12) + 1)

\* C11: for from's (year, month) not later than to's,
\* calculate_collections_from_date_range returns the keys 'YYYY/MM' of every
\* month from from's to to's inclusive, ascending and without repetition:
\* 12*(to.year - from.year) + (to.month - from.month) + 1 keys.  Inside the
\* loop the collections are a prefix of these keys, so the loop ends.
C11_RangeKeys ==
    LET lo == MonthIndex(SplitDash(last.from_date)[1], SplitDash(last.from_date)[2])
        hi == MonthIndex(SplitDash(last.to_date)[1], SplitDash(last.to_date)[2])
        keys == [i \in 1..(hi - lo + 1) |-> MonthKey(lo + i - 1)]
    IN  /\ (last.op = "range" /\ lo <= hi) => last.ret = keys
        /\ (last.op = "range_loop" /\ lo <= hi)
           => /\ Len(last.loop.collections) <= Len(keys)
              /\ last.loop.collections = SubSeq(keys, 1, Len(last.loop.collections))
              /\ Len(last.loop.collections) = Len(keys) => RangeLoopDone(last.loop)

\* the range 2020-04-01..2022-04-01 of the test has given its 25 keys
C11_Witness ==
    /\ last.op = "range"
    /\ last.from_date = "2020-04-01"
    /\ last.to_date = "2022-04-01"
    /\ Len(last.ret) = 25
    /\ last.ret[1] = "2020/04"
    /\ last.ret[25] = "2022/04"

RECURSIVE PartitionRows(_, _, _)
\* the transactions of the rows of the existing partitions of the months lo..hi
\* (month indexes), month after month and in the order of each file
PartitionRows(d, lo, hi) ==
    IF lo > hi THEN <<>>
    ELSE LET key == MonthKey(lo)
             f == IF key \in DOMAIN d THEN File(d, key) ELSE Missing
         IN  (IF f.exists
              THEN [k \in 1..Len(f.rows) |-> Transaction(RowDict(f.hdr, f.rows[k]), "").tx]
              ELSE <<>>)
             \o PartitionRows(d, lo + 1, hi)

\* C12: get_transactions(from, to) without filters returns the records of every
\* existing partition from from's month to to's month, in ascending partition
\* order and in stored order within a partition; a partition of the range that
\* was never created contributes nothing and does not make the call fail.
C12_MissingPartitionsAreEmpty ==
    (last.op = "get" /\ last.filters = <<>>)
    => /\ last.exc = ""
       /\ last.ret = PartitionRows(disk,
              MonthIndex(SplitDash(last.from_date)[1], SplitDash(last.from_date)[2]),
              MonthIndex(SplitDash(last.to_date)[1], SplitDash(last.to_date)[2]))

\* a query over two months whose first partition was never created and whose
\* second holds records has returned them
C12_Witness ==
    /\ last.op = "get"
    /\ last.filters = <<>>
    /\ last.from_date = "2022-01-01"
    /\ last.to_date = "2022-02-02"
    /\ ~File(disk, "2022/01").exists
    /\ Len(File(disk, "2022/02").rows) = 2
    /\ Len(last.ret) = 2
    /\ last.exc = ""

(***************************************************************************)
(* The record store driven directly: CsvDb().add_record, get_records,      *)
(* remove_record and edit_record on collections that do not exist at start.*)
(***************************************************************************)
DbCollections == {"records", "other"}
DbIds == {"1", "2"}
DbValues == {"a", "float:1.0"}
\* records of the field set {id, v}, as dicts in both key orders
DbRecords ==
    {<< <<"id", i>>, <<"v", v>> >> : i \in DbIds, v \in DbValues}
    \cup {<< <<"v", v>>, <<"id", i>> >> : i \in DbIds, v \in DbValues}
DbIdFields == {"id", "v"}
DbIdValues == DbIds \cup {"a"}

DbRows(d) == SumRows(d, DbCollections)

DbInit ==
    /\ disk = [c \in DbCollections |-> Missing]
    /\ _transaction_email_ids = {}
    /\ last = NoCall
    /\ saves = NoSaves
    /\ now = 0
    /\ rewrite = NoRewrite
    /\ tag_manager = [_tags |-> <<>>]
    /\ email_parser = NoParser
    /\ procs = NoProcs
    /\ gmail = NoGmail
    /\ sync = NoSync

AddRecord ==
    /\ last = NoCall
    /\ DbRows(disk) < MaxDbRows
    /\ \E record \in DbRecords, collection \in DbCollections :
           /\ disk' = add_record(disk, record, collection)
           /\ last' = [NoCall EXCEPT !.op = "add_record", !.record = record,
                                     !.collection = collection]
           /\ UNCHANGED <<_transaction_email_ids, saves, now, rewrite, tag_manager, email_parser, procs, gmail, sync>>

GetRecords ==
    /\ last = NoCall
    /\ \E collection \in DbCollections :
           \E r \in {get_records(disk, collection)} :
               /\ last' = [NoCall EXCEPT !.op = "get_records",
                                         !.collection = collection,
                                         !.ret = r.ret, !.exc = r.exc]
               /\ UNCHANGED <<disk, _transaction_email_ids, saves, now, rewrite, tag_manager, email_parser, procs, gmail, sync>>

RemoveRecord ==
    /\ last = NoCall
    /\ \E id_field \in DbIdFields, id_value \in DbIdValues,
          collection \in DbCollections :
           \E r \in {remove_record(disk, id_field, id_value, collection)} :
               /\ disk' = r.d
               /\ last' = [NoCall EXCEPT !.op = "remove_record",
                                         !.id_field = id_field,
                                         !.id_value = id_value,
                                         !.collection = collection, !.exc = r.exc]
               /\ UNCHANGED <<_transaction_email_ids, saves, now, rewrite, tag_manager, email_parser, procs, gmail, sync>>

EditRecord ==
    /\ last = NoCall
    /\ \E id_field \in DbIdFields, id_value \in DbIdValues,
          new_record \in DbRecords, collection \in DbCollections :
           \E r \in {edit_record(disk, id_field, id_value, new_record, collection)} :
               /\ disk' = r.d
               /\ last' = [NoCall EXCEPT !.op = "edit_record",
                                         !.id_field = id_field,
                                         !.id_value = id_value,
                                         !.record = new_record,
                                         !.collection = collection, !.exc = r.exc]
               /\ UNCHANGED <<_transaction_email_ids, saves, now, rewrite, tag_manager, email_parser, procs, gmail, sync>>

DbNext ==
    \/ AddRecord
    \/ GetRecords
    \/ RemoveRecord
    \/ EditRecord
    \/ Return

DbSpec == DbInit /\ [][DbNext]_vars

\* the places of the rows of file f whose field id_field reads id_value
MatchingRows(f, id_field, id_value) ==
    {i \in 1..Len(f.rows) : Get(RowDict(f.hdr, f.rows[i]), id_field) = id_value}

\* the sequence s without its i-th element
Omit(s, i) == [k \in 1..(Len(s) - 1) |-> IF k < i THEN s[k] ELSE s[k + 1]]

\* C13: remove_record(id_field, id_value, collection) yields the original
\* sequence with the single record whose id_field equals id_value omitted:
\* every other record is kept, unchanged and in the same order, the header is
\* unchanged, and when no record matches the content is unchanged.
C13_RemoveOmitsSingleRecord ==
    [][(last'.op = "remove_record" /\ last'.exc = "")
       => LET old == disk[last'.collection]
              new == disk'[last'.collection]
              matching == MatchingRows(old, last'.id_field, last'.id_value)
          IN  /\ new.exists
              /\ new.hdr = old.hdr
              /\ IF matching = {} THEN new.rows = old.rows
                 ELSE \E i \in matching : new.rows = Omit(old.rows, i)]_vars

\* the record read from row of a file with header hdr has the fields of record,
\* each with the string form of its value
ReadsAs(hdr, row, record) ==
    /\ Range(hdr) = Range(Keys(record))
    /\ \A k \in Range(hdr) : Get(RowDict(hdr, row), k) = CsvCell(Get(record, k))

\* C14: edit_record(id_field, id_value, new_record, collection) replaces the
\* record whose id_field equals id_value by new_record at the same position;
\* the header, the number of records and every other record and its position
\* are unchanged; when no record matches the content is unchanged.
C14_EditReplacesInPlace ==
    [][(last'.op = "edit_record" /\ last'.exc = "")
       => LET old == disk[last'.collection]
              new == disk'[last'.collection]
              matching == MatchingRows(old, last'.id_field, last'.id_value)
          IN  /\ new.exists
              /\ new.hdr = old.hdr
              /\ Len(new.rows) = Len(old.rows)
              /\ \A i \in 1..Len(old.rows) :
                     IF i \in matching
                     THEN ReadsAs(new.hdr, new.rows[i], last'.record)
                     ELSE new.rows[i] = old.rows[i]
              /\ \A c \in DbCollections \ {last'.collection} : disk'[c] = disk[c]]_vars

\* edit_record('id', '1', {'v': 1.0, 'id': '1'}) has replaced the first of two
\* records, whose v was 'a'
C14_Witness ==
    /\ last.op = "edit_record"
    /\ last.exc = ""
    /\ last.id_field = "id"
    /\ last.id_value = "1"
    /\ last.record = << <<"v", "float:1.0">>, <<"id", "1">> >>
    /\ disk[last.collection].hdr = <<"id", "v">>
    /\ disk[last.collection].rows = << <<"1", "1.0">>, <<"2", "a">> >>

\* get_records of a collection, the empty sequence when it does not exist
RecordsOf(d, collection) ==
    IF File(d, collection).exists THEN get_records(d, collection).ret ELSE <<>>

\* C15: after add_record calls with records of the same field set on one
\* collection, get_records returns exactly those records in insertion order,
\* each value in the string form of the value written; the first add_record on
\* an absent collection creates it with the record's field names as header,
\* and add_record never changes an earlier record.  Stated per call: the
\* records read after add_record are the records read before it followed by
\* the record added.
C15_AddThenGetRoundTrip ==
    [][(last'.op = "add_record")
       => LET c == last'.collection
              before == RecordsOf(disk, c)
              after == RecordsOf(disk', c)
          IN  /\ disk'[c].exists
              /\ ~disk[c].exists => disk'[c].hdr = Keys(last'.record)
              /\ Len(after) = Len(before) + 1
              /\ SubSeq(after, 1, Len(before)) = before
              /\ \A k \in Range(Keys(last'.record)) :
                     /\ Has(after[Len(after)], k)
                     /\ Get(after[Len(after)], k) = CsvCell(Get(last'.record, k))]_vars

\* C16: get_records, remove_record and edit_record on a collection that has
\* never been created fail with MissingCollectionError, create no collection
\* and change no existing collection; after remove_record deletes the last
\* record of a collection the collection still exists and get_records returns
\* an empty sequence.
C16_MissingCollectionFails ==
    [][/\ (/\ last'.op \in {"get_records", "remove_record", "edit_record"}
           /\ ~File(disk, last'.collection).exists)
          => /\ last'.exc = MissingCollectionError
             /\ disk' = disk
       /\ (/\ last'.op = "remove_record"
           /\ File(disk, last'.collection).exists
           /\ File(disk', last'.collection).rows = <<>>)
          => /\ last'.exc = ""
             /\ File(disk', last'.collection).exists
             /\ get_records(disk', last'.collection) = [exc |-> "", ret |-> <<>>]]_vars

\* remove_record has removed the only record of a collection while the other
\* collection has never been created
C16_Witness ==
    /\ last.op = "remove_record"
    /\ last.exc = ""
    /\ last.collection = "records"
    /\ last.id_field = "id"
    /\ File(disk, "records").exists
    /\ File(disk, "records").hdr = <<"id", "v">>
    /\ File(disk, "records").rows = <<>>
    /\ ~File(disk, "other").exists

\* C17: remove_transaction(date, id) removes the record with that id from the
\* partition of date and from no other place: afterwards get_transactions over
\* that month returns no transaction with that id, every other record of that
\* partition is unchanged and in the same order, and every other partition is
\* unchanged.
C17_RemoveTransactionFrame ==
    [][(last'.op = "remove" /\ last'.exc = "")
       => LET c == calculate_collection_from_date(last'.old_date)
              read == get_transactions(disk', last'.old_date, last'.old_date, <<>>)
          IN  /\ read.exc = ""
              /\ \A i \in 1..Len(read.ret) : read.ret[i].id # last'.guid
              /\ disk'[c].exists
              /\ disk'[c].hdr = disk[c].hdr
              /\ disk'[c].rows =
                     SelectSeq(disk[c].rows,
                               LAMBDA row : Get(RowDict(disk[c].hdr, row), "id")
                                              # last'.guid)
              /\ \A o \in DOMAIN disk \ {c} : disk'[o] = disk[o]]_vars

\* remove_transaction('2022-01-01', 'i1') has ended: 2022/01 holds no record
\* with id i1, while the record with id i1 of 2022/02 is still stored
C17_Witness ==
    /\ last.op = "remove"
    /\ last.exc = ""
    /\ last.guid = "i1"
    /\ last.old_date = "2022-01-01"
    /\ RowsWith(disk, "2022/01", "id", "i1") = {}
    /\ RowsWith(disk, "2022/02", "id", "i1") # {}

(***************************************************************************)
(* Transaction built from a field map, and a transaction written to the    *)
(* record store and built again from the record read.                      *)
(***************************************************************************)
Absent == "<absent>"
\* values of the keys of a field map: valid, malformed, None, or key left out
ArgTypes == {"income", "outcome", "expense", Absent}
ArgTags == {"a|b", "", NoneVal, Absent}
ArgDates == {"2022-01-01", "2022-01", "01/01/2022", NoneVal, Absent}
ArgAmounts == {"12.3", "float:1.0", "abc", NoneVal, Absent}
ArgIds == {"i1", Absent}
ArgEmailIds == {"e1", Absent}

\* the dict with the keys whose value is not Absent
FieldMap(id, type, tags, date, amount, email_id) ==
    SelectSeq(<< <<"id", id>>, <<"type", type>>, <<"tags", tags>>,
                 <<"date", date>>, <<"amount", amount>>,
                 <<"email_id", email_id>> >>,
              LAMBDA item : item[2] # Absent)

\* Transaction(**m) for a field map m
ConstructTransaction ==
    /\ last = NoCall
    /\ \E id \in ArgIds, type \in ArgTypes, tags \in ArgTags, date \in ArgDates,
          amount \in ArgAmounts, email_id \in ArgEmailIds :
           \E m \in {FieldMap(id, type, tags, date, amount, email_id)} :
           \E t \in {Transaction(m, uuid4(disk))} :
               /\ last' = [NoCall EXCEPT !.op = "construct", !.record = m,
                                         !.tx = t.tx, !.exc = t.exc]
               /\ UNCHANGED <<disk, _transaction_email_ids, saves, now, rewrite, tag_manager, email_parser, procs, gmail, sync>>

\* t = Transaction(**m) for a valid field map m; CsvDb().add_record(
\* t.serialize(), collection); Transaction(**get_records(collection)[-1])
StoreAndReload ==
    /\ last = NoCall
    /\ TotalRows(disk) < MaxRows
    /\ \E id \in Ids \cup {NoneVal}, body \in TxBodies, date \in Dates,
          email_id \in EmailIds \cup {NoneVal} :
           \E t \in {Transaction(Kwargs(id, body, date, email_id), uuid4(disk))} :
           \E c \in {calculate_collection_from_date(date)} :
           \E d \in {add_record(disk, Transaction_serialize(t.tx), c)} :
           \E read \in {get_records(d, c).ret} :
           \E u \in {Transaction(read[Len(read)], "")} :
               /\ t.exc = ""
               /\ disk' = d
               /\ last' = [NoCall EXCEPT !.op = "reload", !.tx = t.tx,
                                         !.record = Kwargs(id, body, date, email_id),
                                         !.ret = <<u.tx>>, !.exc = u.exc]
               /\ UNCHANGED <<_transaction_email_ids, saves, now, rewrite, tag_manager, email_parser, procs, gmail, sync>>

ConstructNext ==
    \/ ConstructTransaction
    \/ StoreAndReload
    \/ Return

ConstructSpec == TxInit /\ [][ConstructNext]_vars

\* C18: for every valid field map m (with or without id and email_id),
\* constructing a Transaction from m, serializing it, writing it to and reading
\* it back from the record store, and constructing a Transaction from the
\* record read yields the same id, type, date, amount, tags and email_id as the
\* Transaction first constructed.
C18_TransactionRoundTrip ==
    (last.op = "reload")
    => /\ last.exc = ""
       /\ last.ret[1].id = last.tx.id
       /\ last.ret[1].type = last.tx.type
       /\ last.ret[1].date = last.tx.date
       /\ last.ret[1].amount = last.tx.amount
       /\ last.ret[1].tags = last.tx.tags
       /\ last.ret[1].email_id = last.tx.email_id

\* C19: constructing a Transaction from a flat key-value map either succeeds,
\* with type in {income, outcome}, a date that is a valid YYYY-MM-DD date and
\* a numeric amount, or fails with InvalidFieldValueError (a malformed type,
\* date, amount or tags value) or with MissingFieldError (a required key type,
\* tags, date or amount is absent); no map makes it fail with another error.
C19_ConstructionErrors ==
    (last.op = "construct")
    => \/ /\ last.exc = ""
          /\ last.tx.type \in SUPPORTED_TYPES
          /\ IsDateStr(last.tx.date)
          /\ last.tx.amount \in FloatVals
       \/ /\ last.exc = MissingFieldError
          /\ \E k \in {"type", "tags", "date", "amount"} : ~Has(last.record, k)
       \/ /\ last.exc = InvalidFieldValueError
          /\ \/ GetOr(last.record, "type", "income") \notin SUPPORTED_TYPES
             \/ ~IsStr(GetOr(last.record, "tags", ""))
             \/ ~IsDateStr(GetOr(last.record, "date", "2022-01-01"))
             \/ GetOr(last.record, "amount", "1") \notin
                    FloatVals \cup {p[1] : p \in FloatLits}

(***************************************************************************)
(* One TagManager instance used for a sequence of calls.                   *)
(***************************************************************************)
Concepts == {"uber", "oxxo", "spei", "Uber", "ube"}

\* tag_manager.add_tag(Tag(concept, tags))
TagManagerAddTag ==
    /\ last = NoCall
    /\ FreeTagIds(disk) # {}
    /\ \E rule \in TagRules :
           \E n \in {CHOOSE n \in FreeTagIds(disk) : \A k \in FreeTagIds(disk) : n <= k} :
           \E t \in {Tag(rule[1], rule[2], NoneVal, "t" \o ToString(n))} :
           \E r \in {add_tag(disk, tag_manager._tags, t.tag)} :
               /\ disk' = r.d
               /\ tag_manager' = [_tags |-> r._tags]
               /\ last' = [NoCall EXCEPT !.op = "add_tag", !.guid = t.tag.id,
                                         !.exc = r.exc]
               /\ UNCHANGED <<_transaction_email_ids, saves, now, rewrite, email_parser, procs, gmail, sync>>

\* tag_manager.update_tag(Tag(concept, tags, tag_id))
TagManagerUpdateTag ==
    /\ last = NoCall
    /\ \E rule \in TagRules, tag_id \in TagIds :
           \E t \in {Tag(rule[1], rule[2], tag_id, "")} :
           \E r \in {update_tag(disk, tag_manager._tags, t.tag)} :
               /\ disk' = r.d
               /\ tag_manager' = [_tags |-> r._tags]
               /\ last' = [NoCall EXCEPT !.op = "update_tag", !.guid = tag_id,
                                         !.exc = r.exc]
               /\ UNCHANGED <<_transaction_email_ids, saves, now, rewrite, email_parser, procs, gmail, sync>>

\* tag_manager.delete_tag(tag)
TagManagerDeleteTag ==
    /\ last = NoCall
    /\ \E tag_id \in TagIds :
           \E r \in {delete_tag(disk, tag_manager._tags, [NoTag EXCEPT !.id = tag_id])} :
               /\ disk' = r.d
               /\ tag_manager' = [_tags |-> r._tags]
               /\ last' = [NoCall EXCEPT !.op = "delete_tag", !.guid = tag_id,
                                         !.exc = r.exc]
               /\ UNCHANGED <<_transaction_email_ids, saves, now, rewrite, email_parser, procs, gmail, sync>>

\* tag_manager.match_concpet(concept); ret holds the set of labels, {} for None
TagManagerMatchConcept ==
    /\ last = NoCall
    /\ \E concept \in Concepts :
           \E r \in {match_concpet(disk, tag_manager._tags, concept)} :
               /\ tag_manager' = [_tags |-> r._tags]
               /\ last' = [NoCall EXCEPT !.op = "match_concpet",
                                         !.concept = concept,
                                         !.ret = <<r.ret>>, !.exc = r.exc]
               /\ UNCHANGED <<disk, _transaction_email_ids, saves, now, rewrite, email_parser, procs, gmail, sync>>

\* tag_manager.delete_tag(tag_id), the call of RemoveTag.exec and of
\* test_delete_tag: the argument is the id, a str
TagManagerDeleteTagId ==
    /\ last = NoCall
    /\ \E tag_id \in TagIds :
           \E r \in {delete_tag_of_str(disk, tag_manager._tags, tag_id)} :
               /\ disk' = r.d
               /\ tag_manager' = [_tags |-> r._tags]
               /\ last' = [NoCall EXCEPT !.op = "delete_tag(id)", !.guid = tag_id,
                                         !.exc = r.exc]
               /\ UNCHANGED <<_transaction_email_ids, saves, now, rewrite, email_parser, procs, gmail, sync>>

\* tag_manager.get_tag(id_value); ret holds the tag, <<>> for None
TagManagerGetTag ==
    /\ last = NoCall
    /\ \E tag_id \in TagIds :
           \E r \in {get_tag(disk, tag_id)} :
               /\ last' = [NoCall EXCEPT !.op = "get_tag", !.guid = tag_id,
                                         !.ret = r.ret, !.exc = r.exc]
               /\ UNCHANGED <<disk, _transaction_email_ids, saves, now, rewrite,
                              tag_manager, email_parser, procs, gmail, sync>>

TagNext ==
    \/ TagManagerAddTag
    \/ TagManagerUpdateTag
    \/ TagManagerDeleteTag
    \/ TagManagerDeleteTagId
    \/ TagManagerGetTag
    \/ TagManagerMatchConcept
    \/ Return

TagSpec == TxInit /\ [][TagNext]_vars

\* the labels of the first stored tag of the concept, {} when there is none
StoredMatch(d, concept) ==
    LET f == File(d, TAGS_COLLECTION)
        hits == {i \in 1..Len(f.rows) :
                    Get(RowDict(f.hdr, f.rows[i]), "concept") = concept}
    IN  IF hits = {} THEN {}
        ELSE Range(SplitPipe(Get(RowDict(f.hdr, f.rows[CHOOSE i \in hits :
                                                          \A j \in hits : i <= j]),
                                 "tags")))

\* C20: within one TagManager instance, after any sequence of add_tag,
\* update_tag, delete_tag and match_concept calls, match_concept(c) returns the
\* answer computed from the tags currently stored in the tags collection,
\* never from an outdated in-memory copy.
C20_MatchConceptNeverStale ==
    (last.op = "match_concpet")
    => IF File(disk, TAGS_COLLECTION).exists
       THEN /\ last.exc = ""
            /\ last.ret = <<StoredMatch(disk, last.concept)>>
       ELSE last.exc = MissingCollectionError

\* match_concpet has answered from two tags in memory with the labels of the
\* second one, which the first answer of the instance could not hold
C20_Witness ==
    /\ last.op = "match_concpet"
    /\ last.exc = ""
    /\ Len(tag_manager._tags) = 2
    /\ tag_manager._tags[1].concept # last.concept
    /\ tag_manager._tags[2].concept = last.concept
    /\ last.ret = <<tag_manager._tags[2].tags>>
    /\ StoredMatch(disk, last.concept) # {}

\* the places of the stored tags whose concept cell is exactly concept
ConceptRows(d, concept) ==
    {i \in 1..Len(Rows(d, TAGS_COLLECTION)) : Rows(d, TAGS_COLLECTION)[i][2] = concept}

\* C21: match_concept(c) returns the label set of the first stored tag, in
\* storage order, whose concept is exactly c (case-sensitive, no substring
\* match), and None when at least one tag is stored but none has concept c.
C21_MatchConceptFirstExact ==
    (last.op = "match_concpet" /\ Len(Rows(disk, TAGS_COLLECTION)) >= 1)
    => /\ last.exc = ""
       /\ File(disk, TAGS_COLLECTION).hdr = <<"id", "concept", "tags">>
       /\ LET hits == ConceptRows(disk, last.concept)
              first == CHOOSE i \in hits : \A j \in hits : i <= j
          IN  IF hits = {} THEN last.ret = <<{}>>
              ELSE last.ret =
                       <<Range(SplitPipe(Rows(disk, TAGS_COLLECTION)[first][3]))>>

\* two tags of the concept uber with different labels are stored and
\* match_concpet('uber') has returned the labels of the first; a query that
\* differs in case only finds nothing
C21_Witness ==
    /\ last.op = "match_concpet"
    /\ last.concept = "uber"
    /\ Len(Rows(disk, TAGS_COLLECTION)) = 2
    /\ ConceptRows(disk, "uber") = {1, 2}
    /\ ConceptRows(disk, "Uber") = {}
    /\ Rows(disk, TAGS_COLLECTION)[1][3] # Rows(disk, TAGS_COLLECTION)[2][3]
    /\ last.ret = <<Range(SplitPipe(Rows(disk, TAGS_COLLECTION)[1][3]))>>


\* the tag that the first row with the id holds in the tags file, <<>> when no
\* row has the id or the file does not exist
StoredTag(d, id_value) ==
    LET rows == Rows(d, TAGS_COLLECTION)
        hits == {i \in 1..Len(rows) : rows[i][1] = id_value}
        first == CHOOSE i \in hits : \A j \in hits : i <= j
    IN  IF hits = {} THEN <<>>
        ELSE <<[id |-> id_value, concept |-> rows[first][2],
                tags |-> Range(SplitPipe(rows[first][3]))]>>

\* C22: get_tag(id) returns the tag with that id as last written by add_tag
\* or update_tag (same id, concept and label set), and returns None whenever
\* no stored tag has that id, including when no tag has ever been added.
C22_GetTagOrNone ==
    (last.op = "get_tag")
    => /\ last.exc = ""
       /\ last.ret = StoredTag(disk, last.guid)

\* C22 without its last case: once the tags collection exists, get_tag
\* returns the stored tag with the id, or None when no stored tag has it
C22_GetTagOfExistingCollection ==
    (last.op = "get_tag" /\ File(disk, TAGS_COLLECTION).exists)
    => /\ last.exc = ""
       /\ last.ret = StoredTag(disk, last.guid)

\* C23: delete_tag called with the id of a stored tag removes exactly that
\* tag: afterwards get_tags does not contain it, every other tag is unchanged,
\* and when it was the only tag get_tags returns an empty list.
C23_DeleteTagById ==
    [][(last'.op = "delete_tag(id)" /\ StoredTag(disk, last'.guid) # <<>>)
       => /\ last'.exc = ""
          /\ get_tags(disk').exc = ""
          /\ get_tags(disk').ret =
                 SelectSeq(get_tags(disk).ret, LAMBDA t : t.id # last'.guid)]_vars


(***************************************************************************)
(* fintool/email.py : the html parsers.  A str of an email is a sequence   *)
(* of segments: a character, or a run of characters that holds none of the *)
(* separators and labels the parsers look for.  The content of an email is *)
(* the sequence of its elements <<tag, text>>, <tag>text</tag> in html,    *)
(* with tag "" for text that no start tag precedes.                        *)
(***************************************************************************)
IndexError == "IndexError"
UnsupportedEmailProviderError == "UnsupportedEmailProviderError"
UnsupportedEmailType == "UnsupportedEmailType"
HttpError == "HttpError"

\* the str of Python that the segments spell
Str(s) == Join(s, "")
\* sub in s, for a sub of one segment
In(sub, s) == \E i \in 1..Len(s) : s[i] = sub
\* s.replace(old, '')
Remove(s, old) == SelectSeq(s, LAMBDA c : c # old)
\* s[1:]
From1(s) == IF s = <<>> THEN <<>> ELSE Tail(s)

RECURSIVE Split(_, _)
\* s.split(sep)
Split(s, sep) ==
    IF \A i \in 1..Len(s) : s[i] # sep THEN <<s>>
    ELSE LET k == CHOOSE i \in 1..Len(s) :
                      s[i] = sep /\ \A j \in 1..(i - 1) : s[j] # sep
         IN  <<SubSeq(s, 1, k - 1)>> \o Split(SubSeq(s, k + 1, Len(s)), sep)

RECURSIVE JoinSegs(_, _)
\* sep.join(parts) for parts given by their segments
JoinSegs(parts, sep) ==
    IF Len(parts) = 0 THEN <<>>
    ELSE IF Len(parts) = 1 THEN parts[1]
    ELSE parts[1] \o <<sep>> \o JoinSegs(Tail(parts), sep)

\* data[k] = v
SetItem(data, k, v) ==
    IF Has(data, k)
    THEN [i \in 1..Len(data) |-> IF data[i][1] = k THEN <<k, v>> ELSE data[i]]
    ELSE Append(data, <<k, v>>)

Banamex_CONCEPT_STR == "Establecimiento"
Banamex_AMOUNT_STR == "$"
Banamex_DATE_STR == "Fecha y hora"
Banamex_TRANSACTION_TYPE == "Retiro/Compra"

\* BanamexEmailParser()
BanamexEmailParser == [type |-> "banamex", _data_strs |-> <<>>, _start_tag |-> NoneVal]

Banamex_parse_date(date_str) ==
    LET date_parts == Split(Split(date_str, " ")[1], "/")
    IN  IF Len(date_parts) < 3 THEN date_str
        ELSE IF Len(date_parts[1]) = 2 /\ Len(date_parts[3]) = 2
        THEN JoinSegs(<< <<"2", "0">> \o date_parts[3], date_parts[2], date_parts[1] >>,
                      "-")
        ELSE JoinSegs(<<date_parts[1], date_parts[2], date_parts[3]>>, "-")

Banamex_parse_amount(amount_str) ==
    LET amount_parts == Split(amount_str, " ")
    IN  IF Len(amount_parts) = 1 THEN Remove(From1(amount_parts[1]), ",")
        ELSE Remove(amount_parts[2], ",")

RECURSIVE Banamex_get_data_loop(_, _, _, _)
\* the while loop of BanamexEmailParser.get_data from index i (counted from 1)
Banamex_get_data_loop(strs, i, data, expected_transaction) ==
    IF i > Len(strs)
    THEN [exc |-> "", ret |-> IF expected_transaction THEN data ELSE <<>>]
    ELSE IF In(Banamex_CONCEPT_STR, strs[i])
    THEN IF Has(data, "concept")
         THEN Banamex_get_data_loop(strs, i + 2, data, expected_transaction)
         ELSE IF i + 1 > Len(strs) THEN [exc |-> IndexError, ret |-> <<>>]
         ELSE Banamex_get_data_loop(strs, i + 2,
                  SetItem(data, "concept", Str(strs[i + 1])), expected_transaction)
    ELSE IF In(Banamex_AMOUNT_STR, strs[i])
    THEN Banamex_get_data_loop(strs, i + 1,
             IF Has(data, "amount") THEN data
             ELSE SetItem(data, "amount", Str(Banamex_parse_amount(strs[i]))),
             expected_transaction)
    ELSE IF In(Banamex_DATE_STR, strs[i])
    THEN IF Has(data, "date")
         THEN Banamex_get_data_loop(strs, i + 2, data, expected_transaction)
         ELSE IF i + 1 > Len(strs) THEN [exc |-> IndexError, ret |-> <<>>]
         ELSE Banamex_get_data_loop(strs, i + 2,
                  SetItem(data, "date", Str(Banamex_parse_date(strs[i + 1]))),
                  expected_transaction)
    ELSE IF In(Banamex_TRANSACTION_TYPE, strs[i])
    THEN Banamex_get_data_loop(strs, i + 1, data, TRUE)
    ELSE Banamex_get_data_loop(strs, i + 1, data, expected_transaction)

HeyBanco_CONCEPT_STR == <<"Comercio en donde se hizo la compra ">>
HeyBanco_AMOUNT_STR == <<"Monto de compra ">>
\* written here without the accent of its last vowel
HeyBanco_DATE_STR == <<"Fecha y hora de la transaccion">>

\* HeyBancoEmailParser()
HeyBancoEmailParser == [type |-> "heybanco", _data_strs |-> <<>>, _start_tag |-> NoneVal]

\* the date, or IndexError for date_parts[2] of fewer than three parts
HeyBanco_parse_date(date_str) ==
    LET date_parts == Split(Split(date_str, " ")[1], "/")
    IN  IF Len(date_parts) < 3 THEN [exc |-> IndexError, ret |-> <<>>]
        ELSE [exc |-> "",
              ret |-> JoinSegs(<<date_parts[3], date_parts[2], date_parts[1]>>, "-")]

HeyBanco_parse_amount(amount_str) == Remove(From1(amount_str), ",")

RECURSIVE HeyBanco_get_data_loop(_, _, _)
\* the while loop of HeyBancoEmailParser.get_data from index i (counted from 1)
HeyBanco_get_data_loop(strs, i, data) ==
    IF i > Len(strs) THEN [exc |-> "", ret |-> data]
    ELSE IF strs[i] \in {HeyBanco_CONCEPT_STR, HeyBanco_AMOUNT_STR, HeyBanco_DATE_STR}
    THEN IF i + 2 > Len(strs) THEN [exc |-> IndexError, ret |-> <<>>]
         ELSE IF strs[i] = HeyBanco_CONCEPT_STR
         THEN HeyBanco_get_data_loop(strs, i + 3,
                                     SetItem(data, "concept", Str(strs[i + 2])))
         ELSE IF strs[i] = HeyBanco_AMOUNT_STR
         THEN HeyBanco_get_data_loop(strs, i + 3,
                  SetItem(data, "amount", Str(HeyBanco_parse_amount(strs[i + 2]))))
         ELSE IF HeyBanco_parse_date(strs[i + 2]).exc # ""
         THEN [exc |-> HeyBanco_parse_date(strs[i + 2]).exc, ret |-> <<>>]
         ELSE HeyBanco_get_data_loop(strs, i + 3,
                  SetItem(data, "date", Str(HeyBanco_parse_date(strs[i + 2]).ret)))
    ELSE HeyBanco_get_data_loop(strs, i + 1, data)

SUPPORTED_CLIENTS == {"gmail"}
SUPPORTED_PARSERS == {"heybanco", "banamex"}

\* build_parser for a supported email_type
build_parser(email_type) ==
    IF email_type = "heybanco" THEN HeyBancoEmailParser ELSE BanamexEmailParser

\* HeyBancoEmailParser.handle_starttag; BanamexEmailParser has none
handle_starttag(parser, tag) ==
    IF parser.type = "heybanco" THEN [parser EXCEPT !._start_tag = tag] ELSE parser

handle_data(parser, data) ==
    IF parser.type = "banamex" \/ parser._start_tag = "h4"
    THEN [parser EXCEPT !._data_strs = Append(@, data)]
    ELSE parser

RECURSIVE feed(_, _)
\* HTMLParser.feed: the handlers are called element by element
feed(parser, content) ==
    IF content = <<>> THEN parser
    ELSE feed(handle_data(IF Head(content)[1] = "" THEN parser
                          ELSE handle_starttag(parser, Head(content)[1]),
                          Head(content)[2]),
              Tail(content))

get_data(parser) ==
    IF parser.type = "banamex"
    THEN Banamex_get_data_loop(parser._data_strs, 1, <<>>, FALSE)
    ELSE HeyBanco_get_data_loop(parser._data_strs, 1, <<>>)

\* parse_email without the reset that it does not have: the parser keeps the
\* strings of every email fed to it
parse_email(parser, html_email) ==
    With(feed(parser, html_email.content), LAMBDA fed :
        With(get_data(fed), LAMBDA parsed_data :
            IF parsed_data.exc # ""
            THEN [exc |-> parsed_data.exc, ret |-> TransactionEmail("", "", "", "", {}),
                  parser |-> fed]
            ELSE [exc |-> TransactionEmail_from_dict(
                              SetItem(parsed_data.ret, "email_id", html_email.uid)).exc,
                  ret |-> TransactionEmail_from_dict(
                              SetItem(parsed_data.ret, "email_id", html_email.uid)).ret,
                  parser |-> fed]))

RECURSIVE parse_emails(_, _)
\* the loop of fetch_transaction_emails: MissingFieldError is passed over
parse_emails(email_parser_, emails) ==
    IF emails = <<>> THEN [exc |-> "", ret |-> <<>>]
    ELSE With(parse_email(email_parser_, Head(emails)), LAMBDA r :
             IF r.exc \notin {"", MissingFieldError} THEN [exc |-> r.exc, ret |-> <<>>]
             ELSE With(parse_emails(r.parser, Tail(emails)), LAMBDA rest :
                      IF rest.exc # "" \/ r.exc = MissingFieldError THEN rest
                      ELSE [exc |-> "", ret |-> <<r.ret>> \o rest.ret]))

\* fetched is the outcome of email_client.fetch_emails: an exception of the
\* provider or the emails
fetch_transaction_emails(provider, email_type, fetched) ==
    IF provider \notin SUPPORTED_CLIENTS
    THEN [exc |-> UnsupportedEmailProviderError, ret |-> <<>>]
    ELSE IF email_type \notin SUPPORTED_PARSERS
    THEN [exc |-> UnsupportedEmailType, ret |-> <<>>]
    ELSE IF fetched.exc # "" THEN [exc |-> fetched.exc, ret |-> <<>>]
    ELSE parse_emails(build_parser(email_type), fetched.emails)

\* a sync_transactions that stores the checkpoint before it fetches
SyncManager_sync_transactions_checkpoint_first(d, provider, email_type, mail_boxes, fetched, timestamp) ==
    With(fetch_transaction_emails(provider, email_type, fetched), LAMBDA f :
        IF f.exc # ""
        THEN [exc |-> f.exc,
              d |-> update_last_sync(d, provider, email_type, mail_boxes, timestamp,
                                     LAST_SYNC).d]
        ELSE sync_transactions(d, provider, email_type, mail_boxes, f.ret, timestamp))

\* SyncManager.sync_transactions from its start: the emails are fetched and
\* parsed before anything is stored
SyncManager_sync_transactions(d, provider, email_type, mail_boxes, fetched, timestamp) ==
    With(fetch_transaction_emails(provider, email_type, fetched), LAMBDA f :
        IF f.exc # "" THEN [exc |-> f.exc, d |-> d]
        ELSE sync_transactions(d, provider, email_type, mail_boxes, f.ret, timestamp))


(***************************************************************************)
(* The emails of the mailbox and the parsers at work.                      *)
(***************************************************************************)
MaxDataStrs == 18   \* strings kept by one parser

Email(uid, content) == [uid |-> uid, content |-> content]

\* '01/01/22 10:00' and '2022/02/02 11:00'
OldDateSegs == <<"0", "1", "/", "0", "1", "/", "2", "2", " ", "10:00">>
NewDateSegs == <<"2", "0", "2", "2", "/", "0", "2", "/", "0", "2", " ", "11:00">>

\* mails of Banamex: a purchase with the date and amount in the old format, one
\* in the new format, one without amount, one that is no purchase, and one
\* that ends with the label of the date
BanamexMails ==
    {Email("e1", << <<"p", <<"Retiro/Compra">>>>,
                    <<"td", <<"Establecimiento">>>>, <<"td", <<"uber">>>>,
                    <<"td", <<"$", "12.3">>>>,
                    <<"td", <<"Fecha y hora">>>>, <<"td", OldDateSegs>> >>),
     Email("e2", << <<"p", <<"Retiro/Compra">>>>,
                    <<"td", <<"Establecimiento">>>>, <<"td", <<"oxxo">>>>,
                    <<"td", <<"$", " ", "1", ",", "000">>>>,
                    <<"td", <<"Fecha y hora">>>>, <<"td", NewDateSegs>> >>),
     Email("e3", << <<"p", <<"Retiro/Compra">>>>,
                    <<"td", <<"Establecimiento">>>>, <<"td", <<"spei">>>>,
                    <<"td", <<"Fecha y hora">>>>, <<"td", NewDateSegs>> >>),
     Email("e4", << <<"td", <<"Establecimiento">>>>, <<"td", <<"spei">>>>,
                    <<"td", <<"$", "1">>>>,
                    <<"td", <<"Fecha y hora">>>>, <<"td", NewDateSegs>> >>),
     Email("e5", << <<"p", <<"Retiro/Compra">>>>,
                    <<"td", <<"Establecimiento">>>>, <<"td", <<"uber">>>>,
                    <<"td", <<"$", "1">>>>,
                    <<"td", <<"Fecha y hora">>>> >>)}

\* '01/01/2022 - 10:00 hrs' and '02/02/2022 - 11:00 hrs'
HeyDate1Segs == <<"01", "/", "01", "/", "2022", " ", "-", " ", "10:00", " ", "hrs">>
HeyDate2Segs == <<"02", "/", "02", "/", "2022", " ", "-", " ", "11:00", " ", "hrs">>

\* label, separator and value of a field, each in its own h4
HeyField(label, value) == << <<"h4", label>>, <<"h4", <<" ">>>>, <<"h4", value>> >>

\* mails of Hey Banco: two purchases, one without amount, and one that ends
\* after the label of the date
HeyBancoMails ==
    {Email("e1", << <<"p", <<"hola">>>> >>
                 \o HeyField(HeyBanco_CONCEPT_STR, <<"uber">>)
                 \o HeyField(HeyBanco_AMOUNT_STR, <<"$", "12.3">>)
                 \o HeyField(HeyBanco_DATE_STR, HeyDate1Segs)),
     Email("e2", HeyField(HeyBanco_CONCEPT_STR, <<"oxxo">>)
                 \o HeyField(HeyBanco_AMOUNT_STR, <<"$", "1", ",", "000">>)
                 \o HeyField(HeyBanco_DATE_STR, HeyDate2Segs)),
     Email("e3", HeyField(HeyBanco_CONCEPT_STR, <<"spei">>)
                 \o HeyField(HeyBanco_DATE_STR, HeyDate2Segs)),
     Email("e5", HeyField(HeyBanco_CONCEPT_STR, <<"uber">>)
                 \o HeyField(HeyBanco_AMOUNT_STR, <<"$", "1">>)
                 \o << <<"h4", HeyBanco_DATE_STR>> >>)}

MailsOf(email_type) == IF email_type = "heybanco" THEN HeyBancoMails ELSE BanamexMails

\* email_parser = build_parser(email_type)
BuildParser ==
    /\ last = NoCall
    /\ \E email_type \in SUPPORTED_PARSERS :
           /\ email_parser' = build_parser(email_type)
           /\ last' = [NoCall EXCEPT !.op = "build_parser", !.target = email_type]
    /\ UNCHANGED <<disk, _transaction_email_ids, saves, now, rewrite, tag_manager, procs, gmail, sync>>

\* email_parser.parse_email(email), as the loop of fetch_transaction_emails
\* calls it for the emails of a batch one after the other; an exception other
\* than MissingFieldError ends the loop and with it the parser
ParseEmail ==
    /\ last = NoCall
    /\ email_parser # NoParser
    /\ \E email \in MailsOf(email_parser.type) :
           \E r \in {parse_email(email_parser, email)} :
               /\ Len(r.parser._data_strs) <= MaxDataStrs
               /\ email_parser' = IF r.exc \in {"", MissingFieldError} THEN r.parser
                                  ELSE NoParser
               /\ last' = [NoCall EXCEPT !.op = "parse_email", !.emails = <<email>>,
                                         !.target = email_parser.type,
                                         !.ret = <<r.ret>>, !.exc = r.exc]
    /\ UNCHANGED <<disk, _transaction_email_ids, saves, now, rewrite, tag_manager, procs, gmail, sync>>

ParseNext ==
    \/ BuildParser
    \/ ParseEmail
    \/ Return

ParseSpec == TxInit /\ [][ParseNext]_vars

\* C25: the result of parse_email for an email depends only on that email's
\* content and uid: parsing an email after other emails on the same parser
\* instance gives the same concept, date and amount, or the same MissingField
\* failure, as parsing it on a fresh parser.
C25_ParseEmailIndependent ==
    (last.op = "parse_email")
    => /\ last.exc = parse_email(build_parser(last.target), last.emails[1]).exc
       /\ last.ret = <<parse_email(build_parser(last.target), last.emails[1]).ret>>


(***************************************************************************)
(* sync_transactions with the emails as the provider hands them over.      *)
(***************************************************************************)
MaxFetched == 2   \* records held by Pending and Untagged together
Providers == {"gmail", "outlook"}
EmailTypes == {"banamex", "heybanco", "bbva"}

\* the outcomes of email_client.fetch_emails: an error of the provider, or up
\* to two emails of the mailbox
Fetches(email_type) ==
    {[exc |-> HttpError, emails |-> <<>>], [exc |-> "", emails |-> <<>>]}
    \cup {[exc |-> "", emails |-> <<e>>] : e \in MailsOf(email_type)}
    \cup {[exc |-> "", emails |-> b] :
             b \in {c \in MailsOf(email_type) \X MailsOf(email_type) : c[1] # c[2]}}

\* SyncManager().sync_transactions(SyncDetails(provider, email_type, 'inbox', ''))
SyncFromProvider ==
    /\ last = NoCall
    /\ \E provider \in Providers, email_type \in EmailTypes :
       \E fetched \in Fetches(email_type) :
       \E r \in {SyncManager_sync_transactions(disk, provider, email_type, "inbox",
                                               fetched, now)} :
           /\ Len(Rows(r.d, PENDING_COLLECTION)) + Len(Rows(r.d, UNTAGGED_COLLECTION))
                  <= MaxFetched
           /\ disk' = r.d
           /\ last' = [NoCall EXCEPT !.op = "sync_transactions",
                                     !.collection = provider,
                                     !.concept = email_type,
                                     !.record = <<fetched.exc>>,
                                     !.emails = fetched.emails,
                                     !.target = Target(provider, email_type, "inbox"),
                                     !.exc = r.exc]
    /\ UNCHANGED <<_transaction_email_ids, saves, now, rewrite, tag_manager, email_parser, procs, gmail, sync>>

FetchNext ==
    \/ Return
    \/ Tick
    \/ SyncFromProvider

\* a home directory without collections, or with the tags collection that
\* add_tag(Tag('uber', 'a|b')) has created
FetchInit ==
    /\ disk \in {[c \in Collections |-> Missing],
                 add_tag([c \in Collections |-> Missing], <<>>,
                         Tag("uber", "a|b", NoneVal, "t1").tag).d}
    /\ _transaction_email_ids = {}
    /\ last = NoCall
    /\ saves = NoSaves
    /\ now = 0
    /\ rewrite = NoRewrite
    /\ tag_manager = [_tags |-> <<>>]
    /\ email_parser = NoParser
    /\ procs = NoProcs
    /\ gmail = NoGmail
    /\ sync = NoSync

FetchSpec == FetchInit /\ [][FetchNext]_vars

\* the email ids of the rows that d2 holds in the collection after those of d
NewEmailIds(d, d2, collection) ==
    [i \in 1..(Len(Rows(d2, collection)) - Len(Rows(d, collection))) |->
        Rows(d2, collection)[Len(Rows(d, collection)) + i][4]]

\* every required field can be located in the email: a parser that has seen
\* no other email returns a TransactionEmail for it
Locatable(email_type, email) == parse_email(build_parser(email_type), email).exc = ""

\* C24: if parsing some emails of a fetched batch fails because a required
\* field (concept, date or amount) cannot be located in the email,
\* sync_transactions skips those emails, processes every other email of the
\* batch into Pending or Untagged, and persists the checkpoint; the batch is
\* not aborted.
C24_UnparseableEmailsSkipped ==
    [][(/\ last'.op = "sync_transactions"
        /\ last'.collection \in SUPPORTED_CLIENTS
        /\ last'.concept \in SUPPORTED_PARSERS
        /\ last'.record = <<"">>
        /\ \E i \in 1..Len(last'.emails) : ~Locatable(last'.concept, last'.emails[i]))
       => /\ last'.exc = ""
          /\ Range(NewEmailIds(disk, disk', PENDING_COLLECTION))
                 \cup Range(NewEmailIds(disk, disk', UNTAGGED_COLLECTION))
             = {last'.emails[i].uid : i \in {j \in 1..Len(last'.emails) :
                                               Locatable(last'.concept, last'.emails[j])}}
          /\ get_last_sync(disk', last'.collection, last'.concept, "inbox",
                           LAST_SYNC).ret.last_sync = now]_vars

\* C27: if sync_transactions fails while building the client or parser
\* (unsupported provider or email type) or while fetching from the provider,
\* then Pending, Untagged and the LastSync checkpoint of every target are
\* exactly as before the call.
C27_FailedFetchWritesNothing ==
    [][(/\ last'.op = "sync_transactions"
        /\ \/ last'.collection \notin SUPPORTED_CLIENTS
           \/ last'.concept \notin SUPPORTED_PARSERS
           \/ last'.record # <<"">>)
       => /\ last'.exc \in {UnsupportedEmailProviderError, UnsupportedEmailType,
                            HttpError}
          /\ \A c \in {PENDING_COLLECTION, UNTAGGED_COLLECTION, LAST_SYNC} :
                 disk'[c] = disk[c]]_vars

\* a sync_transactions has ended with the error of the provider while a
\* checkpoint and records in Pending and Untagged were stored
C27_Witness ==
    /\ last.op = "sync_transactions"
    /\ last.exc = HttpError
    /\ Len(Rows(disk, LAST_SYNC)) >= 1
    /\ Len(Rows(disk, PENDING_COLLECTION)) >= 1
    /\ Len(Rows(disk, UNTAGGED_COLLECTION)) >= 1


(***************************************************************************)
(* The commands that read Pending and Untagged.                            *)
(***************************************************************************)
\* SyncManager.create_concepts_set: the set of the concepts in Untagged
create_concepts_set(d) ==
    With(load_untagged_transactions(d), LAMBDA transaction_emails :
        IF transaction_emails.exc # "" THEN [exc |-> transaction_emails.exc, ret |-> {}]
        ELSE [exc |-> "",
              ret |-> {transaction_emails.ret[i].concept :
                          i \in 1..Len(transaction_emails.ret)}])

\* ShowPendingTransactions.exec
ShowPendingTransactions ==
    /\ last = NoCall
    /\ \E r \in {load_pending_transactions(disk)} :
           last' = [NoCall EXCEPT !.op = "show_pending", !.ret = r.ret, !.exc = r.exc]
    /\ UNCHANGED <<disk, _transaction_email_ids, saves, now, rewrite, tag_manager, email_parser, procs, gmail, sync>>

\* ShowUntaggedTransactions.exec
ShowUntaggedTransactions ==
    /\ last = NoCall
    /\ \E r \in {load_untagged_transactions(disk)} :
           last' = [NoCall EXCEPT !.op = "show_untagged", !.ret = r.ret, !.exc = r.exc]
    /\ UNCHANGED <<disk, _transaction_email_ids, saves, now, rewrite, tag_manager, email_parser, procs, gmail, sync>>

\* ShowConcepts.exec
ShowConcepts ==
    /\ last = NoCall
    /\ \E r \in {create_concepts_set(disk)} :
           last' = [NoCall EXCEPT !.op = "show_concepts", !.ret = <<r.ret>>,
                                  !.exc = r.exc]
    /\ UNCHANGED <<disk, _transaction_email_ids, saves, now, rewrite, tag_manager, email_parser, procs, gmail, sync>>

ShowNext ==
    \/ Return
    \/ AddTag
    \/ SyncTransactions({"inbox"}, Batches)
    \/ TagTransactions
    \/ CommitTransactions
    \/ ShowPendingTransactions
    \/ ShowUntaggedTransactions
    \/ ShowConcepts

ShowSpec == TxInit /\ [][ShowNext]_vars

\* the collection that a command reads
ReadCollection(op) ==
    IF op \in {"show_pending", "commit"} THEN PENDING_COLLECTION ELSE UNTAGGED_COLLECTION

\* C26: reading Pending or Untagged when the collection has never been
\* created (load_pending_transactions, load_untagged_transactions,
\* create_concepts_set, tag_transactions, commit_transactions, as invoked by
\* their actions) behaves as if the collection were empty and does not end
\* the command with an error.
C26_MissingCollectionReadsAsEmpty ==
    [][(/\ last'.op \in {"show_pending", "show_untagged", "show_concepts", "tag",
                         "commit"}
        /\ ~File(disk, ReadCollection(last'.op)).exists)
       => /\ last'.exc = ""
          /\ last'.ret \in {<<>>, <<{}>>}
          /\ \A c \in DOMAIN disk : Rows(disk', c) = Rows(disk, c)]_vars


(***************************************************************************)
(* Two processes on the same collection.  Files are read and written       *)
(* through buffers: remove_record and edit_record have read the whole      *)
(* collection file once its header is read, the temporary file receives    *)
(* its lines when it is closed, and add_record appends its line when its   *)
(* file is closed.  A file that is open stays the same file for its        *)
(* process when another process replaces the path by another file.         *)
(* The schedules in which two rewrites of the collection overlap, which    *)
(* write one temporary file through two handles, are left out.             *)
(***************************************************************************)
MaxProcRows == 2   \* records held by the collection of the two processes

\* the tag that process p adds, and the ids that the processes look for
ProcTag(p, rule) == Tag(rule[1], rule[2], "t" \o ToString(p), "").tag
ProcTagIds == {"t0"} \cup {"t" \o ToString(p) : p \in Procs}

\* the collection holds one tag, stored by add_tag
ProcInit ==
    /\ disk = add_tag([c \in Collections \cup {TmpName(TAGS_COLLECTION)} |-> Missing],
                      <<>>, Tag("uber", "a|b", "t0", "").tag).d
    /\ _transaction_email_ids = {}
    /\ last = NoCall
    /\ saves = NoSaves
    /\ now = 0
    /\ rewrite = NoRewrite
    /\ tag_manager = [_tags |-> <<>>]
    /\ email_parser = NoParser
    /\ procs = NoProcs
    /\ gmail = NoGmail
    /\ sync = NoSync

\* a rename that leaves an existing destination as it is
Path_replace_no_clobber(d, src, dst) ==
    IF File(d, dst).exists THEN [d EXCEPT ![src] = Missing]
    ELSE [[d EXCEPT ![dst] = d[src]] EXCEPT ![src] = Missing]

\* pathlib.Path(src).replace(dst)
Path_replace(d, src, dst) == [[d EXCEPT ![dst] = d[src]] EXCEPT ![src] = Missing]

InRewrite(p) == procs[p].pc \in {"opened", "written"}
InAdd(p) == procs[p].pc = "add_opened"

\* add_record up to the open of the collection file for appending
ProcAddOpen(p) ==
    /\ procs[p].pc = "idle"
    /\ File(disk, TAGS_COLLECTION).exists
    /\ Len(Rows(disk, TAGS_COLLECTION)) + Cardinality({q \in Procs : InAdd(q)})
           < MaxProcRows
    /\ \E rule \in {<<"oxxo", "b">>, <<"spei", "a">>} :
           procs' = [procs EXCEPT ![p] =
                        [pc |-> "add_opened", op |-> "add",
                         collection |-> TAGS_COLLECTION,
                         record |-> Tag_serialize(ProcTag(p, rule)),
                         file_exists |-> TRUE, at |-> "collection", exc |-> ""]]
    /\ UNCHANGED <<disk, _transaction_email_ids, last, saves, now, rewrite, tag_manager, email_parser, gmail, sync>>

\* writer.writerow(record) and the close of the file: the line goes to the
\* end of the file that was opened, which another process may have replaced
\* in the meantime
ProcAddWrite(p) ==
    /\ InAdd(p)
    /\ LET row == WriteRow(Keys(procs[p].record), procs[p].record)
       IN  /\ disk' = IF procs[p].at = "collection"
                      THEN [disk EXCEPT ![TAGS_COLLECTION].rows = Append(@, row)]
                      ELSE disk
           /\ procs' = [q \in Procs |->
                           IF q = p THEN [procs[p] EXCEPT !.pc = "done"]
                           ELSE IF InRewrite(q) /\ procs[p].at = "collection"
                           THEN [procs[q] EXCEPT !.missed = Append(@, row)]
                           ELSE procs[q]]
    /\ UNCHANGED <<_transaction_email_ids, last, saves, now, rewrite, tag_manager, email_parser, gmail, sync>>

\* remove_record or edit_record up to the open of the temporary file: the
\* collection file is read, the temporary file is created empty
ProcRewriteOpen(p) ==
    /\ procs[p].pc = "idle"
    /\ \A q \in Procs : ~InRewrite(q)
    /\ \E op \in {"remove", "edit"}, tag_id \in ProcTagIds :
           LET files == create_collection_objects(TAGS_COLLECTION)
               f == File(disk, files[1])
           IN  IF f.exists
               THEN /\ procs' = [procs EXCEPT ![p] =
                                    [pc |-> "opened", op |-> op,
                                     collection |-> files[1], tmp |-> files[2],
                                     id_field |-> "id", id_value |-> tag_id,
                                     new_record |->
                                         Tag_serialize(Tag("spei", "a|b", tag_id, "").tag),
                                     field_names |-> f.hdr, before |-> f,
                                     missed |-> <<>>, exc |-> ""]]
                    /\ disk' = [disk EXCEPT ![files[2]] = EmptyFile(<<>>)]
               ELSE /\ procs' = [procs EXCEPT ![p] =
                                    [pc |-> "failed", op |-> op,
                                     exc |-> MissingCollectionError]]
                    /\ disk' = disk
    /\ UNCHANGED <<_transaction_email_ids, last, saves, now, rewrite, tag_manager, email_parser, gmail, sync>>

\* the header and the rows written to the temporary file, and its close
ProcRewriteWrite(p) ==
    /\ procs[p].pc = "opened"
    /\ disk' = [disk EXCEPT ![procs[p].tmp] = Rewritten(procs[p])]
    /\ procs' = [procs EXCEPT ![p].pc = "written"]
    /\ UNCHANGED <<_transaction_email_ids, last, saves, now, rewrite, tag_manager, email_parser, gmail, sync>>

\* the temporary file replaces the collection file; the processes that have
\* the collection file open keep the file that was there before
ProcRewriteReplace(p) ==
    /\ procs[p].pc = "written"
    /\ disk' = Path_replace(disk, procs[p].tmp, procs[p].collection)
    /\ procs' = [q \in Procs |->
                    IF q = p THEN [procs[p] EXCEPT !.pc = "done"]
                    ELSE IF InAdd(q) THEN [procs[q] EXCEPT !.at = "gone"]
                    ELSE procs[q]]
    /\ UNCHANGED <<_transaction_email_ids, last, saves, now, rewrite, tag_manager, email_parser, gmail, sync>>

\* the operation of the process has ended
ProcReturn(p) ==
    /\ procs[p].pc \in {"done", "failed"}
    /\ procs' = [procs EXCEPT ![p] = [pc |-> "idle"]]
    /\ UNCHANGED <<disk, _transaction_email_ids, last, saves, now, rewrite, tag_manager, email_parser, gmail, sync>>

ProcNext ==
    \E p \in Procs :
        \/ ProcAddOpen(p)
        \/ ProcAddWrite(p)
        \/ ProcRewriteOpen(p)
        \/ ProcRewriteWrite(p)
        \/ ProcRewriteReplace(p)
        \/ ProcReturn(p)

ProcSpec == ProcInit /\ [][ProcNext]_vars

\* C28: the record store gives no mutual exclusion between processes: a
\* remove_record or edit_record that ends without error leaves the collection
\* as computed from the records it read when it started, so the records that
\* another process has added in the meantime are not in it; and an add_record
\* whose file was replaced in the meantime ends without error and leaves the
\* collection as it is.
C28_NoMutualExclusion ==
    [][\A p \in Procs :
          /\ (procs[p].pc = "written" /\ procs'[p].pc = "done")
             => /\ procs'[p].exc = ""
                /\ disk'[TAGS_COLLECTION] = Rewritten(procs[p])
          /\ (InAdd(p) /\ procs[p].at = "gone" /\ procs'[p].pc = "done")
             => /\ procs'[p].exc = ""
                /\ disk' = disk]_vars

\* the ids of the records in the collection
StoredIds(d, collection) == {Rows(d, collection)[i][1] : i \in 1..Len(Rows(d, collection))}

\* both processes have ended without error, one a remove_record that found
\* its record and the other an add_record that wrote during the rewrite: the
\* removed record is gone and the added record is not in the collection
C28_Witness ==
    \E p \in Procs, q \in Procs :
        /\ procs[p].pc = "done" /\ procs[p].op = "remove" /\ procs[p].exc = ""
        /\ procs[q].pc = "done" /\ procs[q].op = "add" /\ procs[q].exc = ""
        /\ procs[p].id_value = "t0"
        /\ Len(procs[p].missed) = 1
        /\ procs[p].missed[1] = WriteRow(Keys(procs[q].record), procs[q].record)
        /\ StoredIds(disk, TAGS_COLLECTION) = {}


\* C29: the duplicate check of save_transaction looks only at the records
\* stored in the target partition: a save_transaction(tx) into an existing
\* partition that holds no record with tx's email_id appends tx as the last
\* record of the partition, whatever the manager has saved into or loaded
\* from other partitions before.
C29_DuplicateCheckPerPartition ==
    [][(/\ last'.op = "save"
        /\ File(disk, calculate_collection_from_date(last'.tx.date)).exists
        /\ RowsWith(disk, calculate_collection_from_date(last'.tx.date),
                    "email_id", CsvCell(last'.tx.email_id)) = {})
       => LET tx == last'.tx
              c == calculate_collection_from_date(tx.date)
          IN  /\ last'.exc = ""
              /\ Len(Rows(disk', c)) = Len(Rows(disk, c)) + 1
              /\ Len(Rows(disk', c)) \in RowsWith(disk', c, "id", tx.id)
              /\ \A i \in 1..Len(Rows(disk, c)) : Rows(disk', c)[i] = Rows(disk, c)[i]]_vars


LabelsOfCell(cell) ==
    IF \E S \in DOMAIN SetReprTable : SetReprTable[S] = cell
    THEN CHOOSE S \in DOMAIN SetReprTable : SetReprTable[S] = cell
    ELSE {}

\* C31: the transaction that commit_transactions places in the main store for
\* a pending record written with the label set L of a tag rule has tags equal
\* to L.
C31_CommittedTagsAreRuleLabels ==
    [][(last'.op = "commit" /\ last'.exc = "")
       => \A i \in 1..Len(Rows(disk, PENDING_COLLECTION)) :
              LET rec == RowDict(File(disk, PENDING_COLLECTION).hdr,
                                 Rows(disk, PENDING_COLLECTION)[i])
                  c == calculate_collection_from_date(Get(rec, "date"))
                  stored == create_transaction_list(get_records(disk', c).ret)
              IN  \A k \in 1..Len(stored.ret) :
                      (/\ k > Len(Rows(disk, c))
                       /\ stored.ret[k].email_id = Get(rec, "email_id")
                       /\ LabelsOfCell(Get(rec, "tags")) # {})
                      => stored.ret[k].tags = LabelsOfCell(Get(rec, "tags"))]_vars


(***************************************************************************)
(* sync_transactions statement by statement, against a mailbox at the      *)
(* provider that receives emails while syncs run.  The emails are held as  *)
(* parse_email returns them.  The provider is asked for the messages of a  *)
(* label after a timestamp in seconds; whether it also returns the         *)
(* messages of that very second is left open, fetch by fetch;              *)
(* gmail.inclusive records that some fetch has returned such a message.    *)
(***************************************************************************)
\* GmailClient.create_date_filter: <<>> for None
create_date_filter(timestamp) ==
    IF timestamp # <<>> /\ timestamp[1] # 0 THEN timestamp ELSE <<>>

\* GmailClient.fetch_emails: the messages of the label that pass the filter
fetch_emails(g, mail_boxes, from_date, same_second) ==
    LET q == create_date_filter(from_date)
        hits == SelectSeq(g.emails, LAMBDA m :
                    /\ m.mail_box = mail_boxes
                    /\ \/ q = <<>>
                       \/ m.arrived > q[1]
                       \/ same_second /\ m.arrived = q[1])
    IN  [i \in 1..Len(hits) |-> hits[i].email]

\* last_sync.last_sync if last_sync else last_sync, with <<>> for None
from_date_of(d, provider, email_type, mail_boxes) ==
    With(get_last_sync(d, provider, email_type, mail_boxes, LAST_SYNC), LAMBDA l :
        IF l.exc # "" \/ l.ret = NoLastSync THEN <<>> ELSE <<l.ret.last_sync>>)

\* a sync_transactions that stores the checkpoint before the last record
sync_transactions_checkpoint_early(todo) ==
    IF Len(todo) > 1 THEN "save_transaction_emails" ELSE "update_last_sync"

\* the statement of sync_transactions that follows tag_transaction_emails
\* while todo holds the emails that are not saved yet
sync_transactions_statement(todo) ==
    IF todo # <<>> THEN "save_transaction_emails" ELSE "update_last_sync"

\* no call in progress; persisted holds, per mail box, the timestamp stored by
\* the most recent sync_transactions that has returned normally
SyncIdle(persisted) ==
    [pc |-> "idle", mail_boxes |-> "", from_date |-> <<>>, transaction_emails |-> <<>>,
     last_sync |-> 0, todo |-> <<>>, before |-> Missing, pending |-> <<>>,
     untagged |-> <<>>, exc |-> "", persisted |-> persisted]

\* a home directory without collections, or with the tags collection that
\* add_tag(Tag('uber', 'a|b')) has created; the clock shows a time after 1970
RunInit ==
    /\ disk \in {[c \in Collections |-> Missing],
                 add_tag([c \in Collections |-> Missing], <<>>,
                         Tag("uber", "a|b", NoneVal, "t1").tag).d}
    /\ _transaction_email_ids = {}
    /\ last = NoCall
    /\ saves = NoSaves
    /\ now = 1
    /\ rewrite = NoRewrite
    /\ tag_manager = [_tags |-> <<>>]
    /\ email_parser = NoParser
    /\ procs = NoProcs
    /\ gmail = NoGmail
    /\ sync = SyncIdle([m \in MailBoxes |-> <<>>])

\* an email of the bank arrives at the provider under a label
Arrive ==
    /\ \E e \in Mail, mail_box \in MailBoxes :
           /\ \A i \in 1..Len(gmail.emails) : gmail.emails[i].email # e
           /\ gmail' = [gmail EXCEPT !.emails =
                           Append(@, [email |-> e, mail_box |-> mail_box, arrived |-> now])]
    /\ UNCHANGED <<disk, _transaction_email_ids, last, saves, now, rewrite, tag_manager, email_parser, procs, sync>>

\* sync.py:165-180: the checkpoint is read and the emails are fetched, or the
\* provider fails
SyncFetch ==
    /\ sync.pc = "idle"
    /\ \E mail_box \in MailBoxes, same_second \in BOOLEAN, failed \in BOOLEAN :
           LET from_date == from_date_of(disk, "gmail", "banamex", mail_box)
           IN  /\ sync' = [sync EXCEPT
                           !.pc = IF failed THEN "failed" ELSE "fetched",
                           !.exc = IF failed THEN HttpError ELSE "",
                           !.mail_boxes = mail_box,
                           !.from_date = from_date,
                           !.transaction_emails =
                               IF failed THEN <<>>
                               ELSE fetch_emails(gmail, mail_box, from_date, same_second),
                           !.before = File(disk, LAST_SYNC),
                           !.pending = Rows(disk, PENDING_COLLECTION),
                           !.untagged = Rows(disk, UNTAGGED_COLLECTION)]
               /\ gmail' = [gmail EXCEPT !.inclusive =
                               \/ @
                               \/ /\ ~failed
                                  /\ fetch_emails(gmail, mail_box, from_date, same_second)
                                     # fetch_emails(gmail, mail_box, from_date, FALSE)]
    /\ UNCHANGED <<disk, _transaction_email_ids, last, saves, now, rewrite, tag_manager, email_parser, procs>>

\* sync.py:181-183: the clock is read and the emails are tagged
SyncTag ==
    /\ sync.pc = "fetched"
    /\ \E r \in {tag_transaction_emails(disk, <<>>, sync.transaction_emails)} :
           /\ Len(Rows(disk, PENDING_COLLECTION)) + Len(r.tagged) <= MaxPending
           /\ Len(Rows(disk, UNTAGGED_COLLECTION)) + Len(r.untagged) <= MaxUntagged
           /\ sync' = IF r.exc \notin {"", NoTagsError}
                      THEN [sync EXCEPT !.pc = "failed", !.exc = r.exc]
                      ELSE [sync EXCEPT
                               !.pc = "saving",
                               !.last_sync = now,
                               !.todo =
                                   IF r.exc = NoTagsError
                                   THEN [i \in 1..Len(sync.transaction_emails) |->
                                            <<sync.transaction_emails[i],
                                              UNTAGGED_COLLECTION>>]
                                   ELSE [i \in 1..Len(r.tagged) |->
                                            <<r.tagged[i], PENDING_COLLECTION>>]
                                        \o [i \in 1..Len(r.untagged) |->
                                               <<r.untagged[i], UNTAGGED_COLLECTION>>]]
    /\ UNCHANGED <<disk, _transaction_email_ids, last, saves, now, rewrite, tag_manager, email_parser, procs, gmail>>

\* save_transaction_email: one email is appended to its collection
SyncSave ==
    /\ sync.pc = "saving"
    /\ sync_transactions_statement(sync.todo) = "save_transaction_emails"
    /\ sync.todo # <<>>
    /\ disk' = add_record(disk, TransactionEmail_serialize(Head(sync.todo)[1]),
                          Head(sync.todo)[2])
    /\ sync' = [sync EXCEPT !.todo = Tail(@)]
    /\ UNCHANGED <<_transaction_email_ids, last, saves, now, rewrite, tag_manager, email_parser, procs, gmail>>

\* update_last_sync up to the end of remove_last_sync
SyncRemoveLastSync ==
    /\ sync.pc = "saving"
    /\ sync_transactions_statement(sync.todo) = "update_last_sync"
    /\ \E r \in {remove_last_sync(disk, "gmail", "banamex", sync.mail_boxes, LAST_SYNC)} :
           /\ disk' = r.d
           /\ sync' = IF r.exc \in {"", MissingCollectionError}
                      THEN [sync EXCEPT !.pc = "removed"]
                      ELSE [sync EXCEPT !.pc = "failed", !.exc = r.exc]
    /\ UNCHANGED <<_transaction_email_ids, last, saves, now, rewrite, tag_manager, email_parser, procs, gmail>>

\* save_last_sync, the last statement of sync_transactions
SyncSaveLastSync ==
    /\ sync.pc = "removed"
    /\ disk' = save_last_sync(disk, "gmail", "banamex", sync.mail_boxes, sync.last_sync,
                              LAST_SYNC)
    /\ sync' = [sync EXCEPT !.pc = "done",
                            !.persisted[sync.mail_boxes] = <<sync.last_sync>>]
    /\ UNCHANGED <<_transaction_email_ids, last, saves, now, rewrite, tag_manager, email_parser, procs, gmail>>

\* the call is over, normally or with its exception
SyncReturn ==
    /\ sync.pc \in {"done", "failed"}
    /\ sync' = SyncIdle(sync.persisted)
    /\ UNCHANGED <<disk, _transaction_email_ids, last, saves, now, rewrite, tag_manager, email_parser, procs, gmail>>

\* the call ends where it is: an OSError of a read or a write, or the end of
\* the process
SyncAbort ==
    /\ sync.pc \in {"fetched", "saving", "removed"}
    /\ sync' = [sync EXCEPT !.pc = "failed", !.exc = "OSError"]
    /\ UNCHANGED <<disk, _transaction_email_ids, last, saves, now, rewrite, tag_manager, email_parser, procs, gmail>>

RunTick ==
    /\ now < MaxNow
    /\ now' = now + 1
    /\ UNCHANGED <<disk, _transaction_email_ids, last, saves, rewrite, tag_manager, email_parser, procs, gmail, sync>>

RunNext ==
    \/ Arrive
    \/ RunTick
    \/ SyncFetch
    \/ SyncTag
    \/ SyncSave
    \/ SyncRemoveLastSync
    \/ SyncSaveLastSync
    \/ SyncReturn

RunSpec == RunInit /\ [][RunNext]_vars

AbortNext ==
    \/ RunNext
    \/ SyncAbort

AbortSpec == RunInit /\ [][AbortNext]_vars


\* C32: in every execution of sync_transactions the LastSync collection is
\* changed only after every record of the batch has been appended to Pending
\* or Untagged, and a sync that fails before that point leaves the LastSync
\* collection as it was when the sync started.
C32_CheckpointAfterBatch ==
    [][/\ disk'[LAST_SYNC] # disk[LAST_SYNC]
          => /\ sync.pc \in {"saving", "removed"}
             /\ sync.todo = <<>>
             /\ Rows(disk, PENDING_COLLECTION)
                    = sync.pending \o MatchedRows(disk, sync.transaction_emails)
             /\ Rows(disk, UNTAGGED_COLLECTION)
                    = sync.untagged \o UnmatchedRows(disk, sync.transaction_emails)
       /\ (/\ sync'.pc = "failed"
           /\ \/ sync.pc \in {"idle", "fetched"}
              \/ sync.pc = "saving" /\ sync.todo # <<>>)
          => disk'[LAST_SYNC] = sync'.before]_vars

\* a sync of two emails has returned normally: one email is in Pending, the
\* other in Untagged, and the checkpoint of the target, which held the time
\* of an earlier sync, holds the time of this one
C32_Witness ==
    /\ sync.pc = "done"
    /\ Len(sync.transaction_emails) = 2
    /\ Len(sync.before.rows) = 1
    /\ sync.before.rows[1] = <<"1", Target("gmail", "banamex", sync.mail_boxes)>>
    /\ Rows(disk, LAST_SYNC) = << <<"2", Target("gmail", "banamex", sync.mail_boxes)>> >>
    /\ Len(Rows(disk, PENDING_COLLECTION)) = 1
    /\ Len(Rows(disk, UNTAGGED_COLLECTION)) = 1


\* C33: the LastSync collection holds at most one record per target, and a
\* sync of a target fetches from the timestamp that the most recent completed
\* sync of that target has persisted, from None when there was none.
C33_OneCheckpointPerTarget ==
    /\ \A mail_box \in MailBoxes :
           Len(Checkpoints(disk, Target("gmail", "banamex", mail_box))) <= 1
    /\ sync.pc = "fetched" => sync.from_date = sync.persisted[sync.mail_boxes]


\* the email ids stored in Pending and Untagged
IngestedIds(d) ==
    {Rows(d, PENDING_COLLECTION)[i][4] : i \in 1..Len(Rows(d, PENDING_COLLECTION))}
    \cup {Rows(d, UNTAGGED_COLLECTION)[i][4] : i \in 1..Len(Rows(d, UNTAGGED_COLLECTION))}

\* C34: no email falls between the emails fetched by one sync and the filter
\* of the next: when no sync is running, every email at the provider whose
\* target has a checkpoint is stored in Pending or Untagged, or has arrived
\* at or after the checkpoint and so can still be fetched by the next sync.
C34_NoEmailFallsBetweenSyncs ==
    sync.pc = "idle"
    => \A i \in 1..Len(gmail.emails) :
           LET m == gmail.emails[i]
               from_date == from_date_of(disk, "gmail", "banamex", m.mail_box)
           IN  \/ m.email.email_id \in IngestedIds(disk)
               \/ create_date_filter(from_date) = <<>>
               \/ m.arrived >= from_date[1]


\* C35: a Transaction cannot be constructed from an empty tags string:
\* Transaction(**m) with tags '' and a valid type, date and amount fails with
\* InvalidFieldValueError, and every Transaction constructed, from a field map
\* or from a stored record, has a non-empty label among its tags.
C35_TagsNeverEmpty ==
    /\ (/\ last.op = "construct"
        /\ GetOr(last.record, "type", Absent) \in SUPPORTED_TYPES
        /\ GetOr(last.record, "date", Absent) = "2022-01-01"
        /\ GetOr(last.record, "amount", Absent) \in {"12.3", "float:1.0"}
        /\ GetOr(last.record, "tags", Absent) = "")
       => last.exc = InvalidFieldValueError
    /\ (last.op = "construct" /\ last.exc = "")
       => \E label \in last.tx.tags : label # ""
    /\ (last.op = "reload" /\ last.exc = "")
       => \E label \in last.ret[1].tags : label # ""


\* C36: calculate_collections_from_date_range ends for every pair of valid
\* dates; when from's (year, month) is later than to's it returns the empty
\* list, so its loop holds no collection and its condition is false from the
\* start.
C36_RangeEndsWhenFromIsLater ==
    LET lo == MonthIndex(SplitDash(last.from_date)[1], SplitDash(last.from_date)[2])
        hi == MonthIndex(SplitDash(last.to_date)[1], SplitDash(last.to_date)[2])
    IN  /\ (last.op = "range_loop" /\ lo > hi)
           => /\ last.loop.collections = <<>>
              /\ RangeLoopDone(last.loop)
        /\ (last.op = "range" /\ lo > hi) => last.ret = <<>>

\* once the year of the loop is past year_limit the condition of the loop
\* stays false: the loop goes on for as long as it is followed
C36_LoopPastYearLimitGoesOn ==
    (last.op = "range_loop" /\ last.loop.year > last.loop.year_limit)
    => /\ ~RangeLoopDone(last.loop)
       /\ RangeLoopStep(last.loop).year > last.loop.year_limit


\* C37: update_transaction never changes the number of stored transactions:
\* when it returns without error the partitions hold as many records as
\* before, and when old_date's partition holds no record with tx.id the store
\* is unchanged.
C37_UpdateKeepsCount ==
    [][(last'.op = "update" /\ last'.exc = "")
       => /\ TotalRows(disk') = TotalRows(disk)
          /\ RowsWith(disk, calculate_collection_from_date(last'.old_date),
                      "id", last'.tx.id) = {}
             => disk' = disk]_vars


(***************************************************************************)
(* The lifecycle of the emails: syncs against the provider, and            *)
(* tag_transactions and commit_transactions between the syncs.             *)
(***************************************************************************)
\* the partitions exist and hold no transaction; the tags collection holds
\* the rule that add_tag(Tag('uber', 'a|b')) has stored
LifecycleInit ==
    /\ disk = add_tag([c \in Collections |->
                          IF c \in Partitions THEN EmptyFile(TxHeader) ELSE Missing],
                      <<>>, Tag("uber", "a|b", NoneVal, "t1").tag).d
    /\ _transaction_email_ids = {}
    /\ last = NoCall
    /\ saves = NoSaves
    /\ now = 1
    /\ rewrite = NoRewrite
    /\ tag_manager = [_tags |-> <<>>]
    /\ email_parser = NoParser
    /\ procs = NoProcs
    /\ gmail = NoGmail
    /\ sync = SyncIdle([m \in MailBoxes |-> <<>>])

LifecycleNext ==
    \/ RunNext
    \/ sync.pc = "idle" /\ TagTransactions
    \/ sync.pc = "idle" /\ CommitTransactions
    \/ Return

LifecycleSpec == LifecycleInit /\ [][LifecycleNext]_vars

\* the number of records of the collection with the email_id
CountEmailId(d, collection, email_id) ==
    Cardinality(RowsWith(d, collection, "email_id", email_id))

\* C38: each email_id occurs in at most one of Untagged, Pending and the
\* partitions of the transaction store, and at most once there, as long as
\* the provider has returned no message of the very second of a filter.
C38_OneLifecycleStage ==
    ~gmail.inclusive =>
    \A email_id \in {e.email_id : e \in Mail} :
        CountEmailId(disk, UNTAGGED_COLLECTION, email_id)
        + CountEmailId(disk, PENDING_COLLECTION, email_id)
        + CountEmailId(disk, "2022/01", email_id)
        + CountEmailId(disk, "2022/02", email_id) <= 1


(***************************************************************************)
(* The partition key of a saved transaction against the keys of a range,   *)
(* for the dates that Transaction accepts, a month of one digit included.   *)
(***************************************************************************)
KeyDates == Dates \cup {"2022-1-01"}
KeyPartitions == {calculate_collection_from_date(date) : date \in KeyDates}
KeyIds == {"i1", "i2"}

\* every partition exists without a record, or does not exist yet
KeyInit ==
    /\ disk \in [Collections \cup KeyPartitions -> {Missing, EmptyFile(TxHeader)}]
    /\ \A c \in SyncCollections : disk[c] = Missing
    /\ _transaction_email_ids = {}
    /\ last = NoCall
    /\ saves = NoSaves
    /\ now = 0
    /\ rewrite = NoRewrite
    /\ tag_manager = [_tags |-> <<>>]
    /\ email_parser = NoParser
    /\ procs = NoProcs
    /\ gmail = NoGmail
    /\ sync = NoSync

\* Transaction(**kwargs) followed by save_transaction
KeySave ==
    /\ last = NoCall
    /\ \E id \in KeyIds, body \in TxBodies, date \in KeyDates,
          email_id \in EmailIds \cup {NoneVal} :
           \E t \in {Transaction(Kwargs(id, body, date, email_id), "")} :
           \E r \in {save_transaction(disk, _transaction_email_ids, t.tx)} :
               /\ t.exc = ""
               /\ SumRows(r.d, KeyPartitions) <= MaxRows
               /\ disk' = r.d
               /\ _transaction_email_ids' = r.ids
               /\ last' = [NoCall EXCEPT !.op = "save", !.tx = t.tx, !.exc = r.exc]
               /\ UNCHANGED <<saves, now, rewrite, tag_manager, email_parser, procs, gmail, sync>>

\* get_transactions(from_date, to_date) without filters
KeyGet ==
    /\ last = NoCall
    /\ \E from_date \in KeyDates, to_date \in KeyDates :
           \E r \in {get_transactions(disk, from_date, to_date, <<>>)} :
               /\ last' = [NoCall EXCEPT !.op = "get", !.from_date = from_date,
                                         !.to_date = to_date,
                                         !.ret = r.ret, !.exc = r.exc]
               /\ UNCHANGED <<disk, _transaction_email_ids, saves, now,
                              rewrite, tag_manager, email_parser, procs, gmail, sync>>

KeyNext ==
    \/ KeySave
    \/ KeyGet
    \/ Return

KeySpec == KeyInit /\ [][KeyNext]_vars

\* year and month of a date string as one number
MonthOf(date_str) ==
    ToInt(SplitDash(date_str)[1]) * 12 + ToInt(SplitDash(date_str)[2])

\* C39: a stored transaction is among the transactions that get_transactions
\* returns without filters for every range from..to whose months enclose the
\* month of its date.
C39_SavedIsListed ==
    \A c \in KeyPartitions : \A i \in 1..Len(Rows(disk, c)) :
        \A from_date \in KeyDates, to_date \in KeyDates :
            LET record == RowDict(File(disk, c).hdr, Rows(disk, c)[i])
                r == get_transactions(disk, from_date, to_date, <<>>)
            IN  /\ MonthOf(from_date) <= MonthOf(Get(record, "date"))
                /\ MonthOf(Get(record, "date")) <= MonthOf(to_date)
                /\ r.exc = ""
                => \E j \in 1..Len(r.ret) :
                       /\ r.ret[j].id = Get(record, "id")
                       /\ r.ret[j].date = Get(record, "date")

====
